---- MODULE Spec2Model ----
(***************************************************************************)
(* Question-to-syllabus matching engine of Preparing_OCR_Question-bank.    *)
(*                                                                         *)
(* gemini_handler.py: _call_gemini, _keyword_matcher, analyze_question.    *)
(*                                                                         *)
(* Python strings are sequences of one-character strings, so that          *)
(* lower(), split() and the substring test `in` are computed and not       *)
(* assumed.  Confidence scores are integers scaled by 100.                 *)
(***************************************************************************)
EXTENDS Integers, Sequences, FiniteSets, TLC

VARIABLES
    question,    \* question_text passed to the matcher
    syllabus,    \* the catalog: a sequence of subject records
    genai,       \* the google.generativeai module was imported
    api_key,     \* GEMINI_API_KEY is set
    pc,          \* position inside analyze_question / _call_gemini
    out,         \* the `out` dict of analyze_question
    resp,        \* the response object returned by the AI service
    requests,    \* requests sent to the AI service for this question
    kb,          \* what the call of _keyword_matcher produced
    kmCalls,     \* calls of _keyword_matcher for this question
    aiFailure,   \* the reason of the failed AI attempt, NoFailure if none
    returned,    \* number of result records returned to the caller
    escaped,     \* an exception left analyze_question
    obj,         \* the syllabus input of the normalizer: structured or raw text
    vcalls,      \* what each call of the normalizer produced, in order
    parsed_syllabus, \* the catalog given to analyze_questions_against_syllabus
    questions_text,  \* the text of the question paper
    questions,       \* the question units cut out of questions_text
    results          \* the result records appended so far

\* the variables of the syllabus normalizer
docVars == <<obj, vcalls>>

\* the variables of analyze_questions_against_syllabus
appVars == <<parsed_syllabus, questions_text, questions, results>>

vars == <<question, syllabus, genai, api_key, pc, out, resp, requests, kb,
          kmCalls, aiFailure, returned, escaped, obj, vcalls,
          parsed_syllabus, questions_text, questions, results>>

----------------------------------------------------------------------------
(* Bounds of the model *)

MaxSubjects == 2     \* longest catalog
MaxQWords == 2       \* most words in a question
MaxItems == 2        \* most elements of a structured syllabus input
MaxLines == 3        \* most lines of a raw syllabus text
MaxPaperLines == 2   \* most lines of a question paper
MaxSyllabusLines == 3  \* most lines of an uploaded syllabus text

----------------------------------------------------------------------------
(* Python values *)

\* Python None
None == <<"<None>">>
\* a dict key that is not present
Absent == <<"<absent>">>
\* a list entry that is not a str (e.g. a JSON number inside "topics")
NonStr == <<"<int>">>
NotFound == <<"N","o","t"," ","F","o","u","n","d">>

\* a float, as an integer scaled by 100
Num(n) == [num |-> TRUE, val |-> n]
\* a confidence_score that is not a number (a JSON string such as "high")
NotANumber == [num |-> FALSE, val |-> 0]

Min(a, b) == IF a <= b THEN a ELSE b
Max(a, b) == IF a >= b THEN a ELSE b

----------------------------------------------------------------------------
(* str methods *)

UpperLetters == <<"A","B","C","D","E","F","G","H","I","J","K","L","M",
                  "N","O","P","Q","R","S","T","U","V","W","X","Y","Z">>
LowerLetters == <<"a","b","c","d","e","f","g","h","i","j","k","l","m",
                  "n","o","p","q","r","s","t","u","v","w","x","y","z">>
Digits == {"0","1","2","3","4","5","6","7","8","9"}
Whitespace == {" ", "\n", "\t", "\r"}

LowerChar(c) ==
    IF \E i \in 1..26 : UpperLetters[i] = c
    THEN LowerLetters[CHOOSE i \in 1..26 : UpperLetters[i] = c]
    ELSE c

\* str.lower()
Lower(s) == [i \in 1..Len(s) |-> LowerChar(s[i])]

\* `sub in s` for two strs
IsSubstr(sub, s) ==
    \E i \in 0..(Len(s) - Len(sub)) : SubSeq(s, i + 1, i + Len(sub)) = sub

RECURSIVE SplitFrom(_, _, _)
SplitFrom(s, i, cur) ==
    IF i > Len(s)
    THEN IF cur = <<>> THEN <<>> ELSE <<cur>>
    ELSE IF s[i] \in Whitespace
         THEN IF cur = <<>> THEN SplitFrom(s, i + 1, <<>>)
              ELSE <<cur>> \o SplitFrom(s, i + 1, <<>>)
         ELSE SplitFrom(s, i + 1, Append(cur, s[i]))

\* str.split() with no argument: runs of whitespace separate, no empty token
Split(s) == SplitFrom(s, 1, <<>>)

RECURSIVE JoinWith(_, _)
\* sep.join(parts)
JoinWith(sep, parts) ==
    IF parts = <<>> THEN <<>>
    ELSE IF Len(parts) = 1 THEN parts[1]
    ELSE parts[1] \o sep \o JoinWith(sep, Tail(parts))

\* seq[:n]
Prefix(seq, n) == SubSeq(seq, 1, Min(n, Len(seq)))

RECURSIVE SumSeq(_)
SumSeq(ns) == IF ns = <<>> THEN 0 ELSE ns[1] + SumSeq(Tail(ns))

\* \w of the re module
IsWordChar(c) ==
    \/ \E i \in 1..26 : UpperLetters[i] = c \/ LowerLetters[i] = c
    \/ c \in Digits
    \/ c = "_"

\* \b between s[p] and s[p+1], p in 0..Len(s)
WordBoundary(s, p) ==
    LET before == p >= 1 /\ IsWordChar(s[p])
        after == p < Len(s) /\ IsWordChar(s[p + 1])
    IN before # after

\* re.search(r'\b<kw>\b', s) for a literal kw
SearchWord(kw, s) ==
    \E i \in 0..(Len(s) - Len(kw)) :
        /\ SubSeq(s, i + 1, i + Len(kw)) = kw
        /\ WordBoundary(s, i)
        /\ WordBoundary(s, i + Len(kw))

----------------------------------------------------------------------------
(* _keyword_matcher *)

T_Other == <<"O","t","h","e","r">>
T_ShortAnswer == <<"S","h","o","r","t"," ","A","n","s","w","e","r">>
T_BroadAnswer == <<"B","r","o","a","d"," ","A","n","s","w","e","r">>
T_MCQ == <<"M","C","Q">>

ShortAnswerWords == {<<"d","e","f","i","n","e">>,
                     <<"w","h","a","t"," ","i","s">>,
                     <<"w","h","a","t"," ","a","r","e">>}
BroadAnswerWords == {<<"e","x","p","l","a","i","n">>,
                     <<"d","e","s","c","r","i","b","e">>,
                     <<"d","i","s","c","u","s","s">>,
                     <<"e","l","a","b","o","r","a","t","e">>}
McqWords == {<<"c","h","o","o","s","e">>,
             <<"o","p","t","i","o","n">>,
             <<"m","c","q">>,
             <<"a",")">>}

\* QuestionType with the first matching rule kept
QuestionTypeFirstWins(qlow) ==
    IF \E kw \in ShortAnswerWords : SearchWord(kw, qlow) THEN T_ShortAnswer
    ELSE IF \E kw \in BroadAnswerWords : SearchWord(kw, qlow) THEN T_BroadAnswer
    ELSE IF \E kw \in McqWords : SearchWord(kw, qlow) THEN T_MCQ
    ELSE T_Other

\* the three re.search tests, applied in order, a later one overwriting
QuestionType(qlow) ==
    LET t0 == T_Other
        t1 == IF \E kw \in ShortAnswerWords : SearchWord(kw, qlow)
              THEN T_ShortAnswer ELSE t0
        t2 == IF \E kw \in BroadAnswerWords : SearchWord(kw, qlow)
              THEN T_BroadAnswer ELSE t1
        t3 == IF \E kw \in McqWords : SearchWord(kw, qlow)
              THEN T_MCQ ELSE t2
    IN t3

\* number of tokens of lower(s) that occur in qlow
TokenHits(s, qlow) ==
    LET toks == Split(Lower(s))
    IN Cardinality({i \in 1..Len(toks) : IsSubstr(toks[i], qlow)})

\* subject name and code
NameScore(subj, qlow) ==
    (IF subj.subject # <<>> THEN 2 * TokenHits(subj.subject, qlow) ELSE 0)
    + (IF subj.subject_code # <<>> /\ IsSubstr(Lower(subj.subject_code), qlow)
       THEN 2 ELSE 0)

\* one topic scored by its tokens only, without the branch of the whole phrase
TopicScoreTokensOnly(t, qlow) == TokenHits(t, qlow)

\* one topic: the whole phrase, else its tokens
TopicScore(t, qlow) ==
    LET t0 == Lower(t)
    IN IF t0 # <<>> /\ IsSubstr(t0, qlow) THEN 5 ELSE TokenHits(t, qlow)

TopicsScore(subj, qlow) ==
    SumSeq([i \in 1..Len(subj.topics) |-> TopicScore(subj.topics[i], qlow)])

OutcomesScore(subj, qlow) ==
    SumSeq([i \in 1..Len(subj.course_outcomes) |->
               TokenHits(subj.course_outcomes[i], qlow)])

\* the value of `score` at the end of one iteration of the subject loop
SubjectScore(subj, qlow) ==
    NameScore(subj, qlow) + TopicsScore(subj, qlow) + OutcomesScore(subj, qlow)

\* x or "Not Found"
OrNotFound(x) == IF x = <<>> \/ x = Absent THEN NotFound ELSE x

\* d.get(key, "Not Found")
GetOrNotFound(x) == IF x = Absent THEN NotFound ELSE x

\* the assignments made to `best` when a subject beats max_score
Attribution(best, subj) ==
    [best EXCEPT
        !.subject_name = OrNotFound(subj.subject),
        !.subject_code = OrNotFound(subj.subject_code),
        !.probable_topic = IF subj.topics # <<>>
                           THEN JoinWith(<<",", " ">>, Prefix(subj.topics, 2))
                           ELSE NotFound,
        !.course_outcome = IF subj.course_outcomes # <<>>
                           THEN subj.course_outcomes[1]
                           ELSE NotFound,
        !.year = GetOrNotFound(subj.year),
        !.semester = GetOrNotFound(subj.semester)]

\* ScanSubject without the comparison `score > max_score`
ScanSubjectNoCompare(st, subj, qlow) ==
    LET score == SubjectScore(subj, qlow)
    IN IF score > 0
       THEN [max_score |-> Max(score, st.max_score),
             best |-> Attribution(st.best, subj)]
       ELSE st

\* one iteration of `for subj in syllabus`
ScanSubject(st, subj, qlow) ==
    LET score == SubjectScore(subj, qlow)
    IN IF score > st.max_score
       THEN [max_score |-> score, best |-> Attribution(st.best, subj)]
       ELSE st

RECURSIVE ScanFrom(_, _, _, _)
ScanFrom(st, syl, i, qlow) ==
    IF i > Len(syl) THEN st
    ELSE ScanFrom(ScanSubject(st, syl[i], qlow), syl, i + 1, qlow)

\* `best` before the subject loop
InitialBest(q) ==
    [question_text |-> q,
     question_type |-> QuestionType(Lower(q)),
     probable_topic |-> NotFound,
     course_outcome |-> NotFound,
     subject_name |-> NotFound,
     subject_code |-> NotFound,
     year |-> NotFound,
     semester |-> NotFound,
     confidence_score |-> Num(0)]

\* Confidence without the ceiling
ConfidenceUncapped(max_score) == Num(10 + max_score * 5)

\* min(0.95, 0.1 + max_score*0.05), scaled by 100
Confidence(max_score) == Num(Min(95, 10 + max_score * 5))

\* t.lower() or c.lower() on an entry that is not a str
MatcherRaises(syl) ==
    \E i \in 1..Len(syl) :
        \/ \E j \in 1..Len(syl[i].topics) : syl[i].topics[j] = NonStr
        \/ \E j \in 1..Len(syl[i].course_outcomes) :
               syl[i].course_outcomes[j] = NonStr

\* max_score after the subject loop
MaxScore(q, syl) ==
    ScanFrom([max_score |-> 0, best |-> InitialBest(q)], syl, 1, Lower(q)).max_score

\* the call _keyword_matcher(q, syl): it raises, or returns `best`
_keyword_matcher(q, syl) ==
    IF MatcherRaises(syl)
    THEN [called |-> TRUE, raised |-> TRUE, best |-> InitialBest(<<>>)]
    ELSE LET st == ScanFrom([max_score |-> 0, best |-> InitialBest(q)],
                            syl, 1, Lower(q))
         IN [called |-> TRUE, raised |-> FALSE,
             best |-> [st.best EXCEPT
                          !.confidence_score = Confidence(st.max_score)]]

----------------------------------------------------------------------------
(* Inputs: questions and catalogs *)

S_empty == <<>>
S_Tcpip == <<"T","c","p","i","p">>
S_osi == <<"o","s","i">>
S_lan == <<"l","a","n">>
S_tcp == <<"t","c","p">>
S_OsiIp == <<"O","s","i"," ","I","p">>
S_IP == <<"I","P">>
S_osi_tcp == <<"o","s","i"," ","t","c","p">>
S_2nd == <<"2","n","d">>
S_1st == <<"1","s","t">>

QWords == {S_Tcpip, S_osi}

RECURSIVE QuestionsOf(_)
\* the questions of exactly n words, single spaces between the words
QuestionsOf(n) ==
    IF n = 0 THEN {<<>>}
    ELSE IF n = 1 THEN QWords
    ELSE {w \o <<" ">> \o r : w \in QWords, r \in QuestionsOf(n - 1)}

Questions == UNION {QuestionsOf(n) : n \in 0..MaxQWords}

Subject(name, code, y, s, ts, cs) ==
    [subject |-> name, subject_code |-> code, year |-> y, semester |-> s,
     topics |-> ts, course_outcomes |-> cs]

YearSemesters == {<<Absent, Absent>>, <<S_empty, S_1st>>, <<S_2nd, S_empty>>}
TopicLists ==
    {<<>>, <<S_lan, S_tcp>>, <<S_tcp, S_lan, S_osi>>, <<S_osi_tcp, S_tcp>>}
OutcomeLists == {<<>>, <<S_osi_tcp, S_lan>>}

\* records that differ in the attribution fields: a name or a code, and
\* year and semester missing, empty or set
HeadingSubjects ==
    {Subject(S_OsiIp, S_empty, ys[1], ys[2], <<>>, <<>>) : ys \in YearSemesters}
    \cup {Subject(S_empty, S_IP, ys[1], ys[2], <<>>, <<>>) : ys \in YearSemesters}

\* records that differ in topics and course outcomes
ContentSubjects ==
    {Subject(S_OsiIp, S_IP, S_2nd, S_1st, ts, cs) :
        ts \in TopicLists, cs \in OutcomeLists}

\* a record whose topics list holds an entry that is not a str
MalformedSubject == Subject(S_OsiIp, S_IP, S_2nd, S_1st, <<NonStr>>, <<>>)

SubjectPool == HeadingSubjects \cup ContentSubjects \cup {MalformedSubject}

\* the smaller pool used where the AI strategy is explored too
SmallPool ==
    {Subject(S_OsiIp, S_empty, S_empty, S_1st, <<>>, <<>>),
     Subject(S_empty, S_IP, Absent, Absent, <<>>, <<>>),
     Subject(S_OsiIp, S_IP, S_2nd, S_1st, <<S_tcp, S_lan, S_osi>>,
             <<S_osi_tcp, S_lan>>),
     MalformedSubject}

RECURSIVE SeqsOf(_, _)
\* the sequences of exactly n elements of S
SeqsOf(S, n) ==
    IF n = 0 THEN {<<>>}
    ELSE {Append(r, x) : r \in SeqsOf(S, n - 1), x \in S}

Catalogs(pool) == UNION {SeqsOf(pool, n) : n \in 0..MaxSubjects}

----------------------------------------------------------------------------
(* The AI service and its responses *)

\* what json.loads gives on a text
JObject(f) == [kind |-> "object", fields |-> f, items |-> <<>>, s |-> <<>>]
JArray(xs) == [kind |-> "array", fields |-> <<>>, items |-> xs, s |-> <<>>]
JString(t) == [kind |-> "string", fields |-> <<>>, items |-> <<>>, s |-> t]
JNumber == [kind |-> "number", fields |-> <<>>, items |-> <<>>, s |-> <<>>]
JNull == [kind |-> "null", fields |-> <<>>, items |-> <<>>, s |-> <<>>]
\* json.loads raises on the text
Undecodable == [kind |-> "undecodable", fields |-> <<>>, items |-> <<>>, s |-> <<>>]
\* the text has no {...} span
NoBraces == [kind |-> "nobraces", fields |-> <<>>, items |-> <<>>, s |-> <<>>]

\* JSON objects the service may answer with
AIFull ==
    [question_text |-> <<"AI question">>, question_type |-> T_MCQ,
     probable_topic |-> <<"AI topic">>, course_outcome |-> <<"AI outcome">>,
     subject_name |-> <<"AI subject">>, subject_code |-> <<"AI code">>,
     year |-> <<"AI year">>, semester |-> <<"AI semester">>,
     confidence_score |-> Num(90)]
AINoType ==
    [subject_name |-> <<"AI subject">>, confidence_score |-> Num(100)]
AITooHigh == [confidence_score |-> Num(150)]
AINegative == [confidence_score |-> Num(0 - 20)]
AIWordy == [subject_name |-> <<"AI subject">>, confidence_score |-> NotANumber]
AIExtraKeys ==
    [error_message |-> <<"AI message">>, ai_raw_output |-> <<"AI raw">>,
     unknown_key |-> <<"x">>]
AIEmpty == <<>>

AIObjects == {AIFull, AINoType, AITooHigh, AINegative, AIWordy, AIExtraKeys, AIEmpty}

\* the text of a response: what json.loads gives on the whole text (direct)
\* and on the span from its first "{" to its last "}" (braces)
Text(id, direct, braces) == [raw |-> <<"raw ", id>>, direct |-> direct, braces |-> braces]

Texts ==
    {Text("object", JObject(f), JObject(f)) : f \in AIObjects}
    \cup {Text("prose+object", Undecodable, JObject(AIFull)),
          Text("prose+bad object", Undecodable, Undecodable),
          Text("prose", Undecodable, NoBraces),
          Text("array", JArray(<<<<"x">>>>), NoBraces),
          Text("array of key", JArray(<<<<"year">>>>), NoBraces),
          Text("string", JString(<<"ok">>), NoBraces),
          Text("string with key", JString(<<"the ", "year", " is">>), NoBraces),
          Text("number", JNumber, NoBraces),
          Text("null", JNull, NoBraces)}

\* a response object: it has a .text, or it is a dict whose "candidates"
\* list is empty (resp.get("candidates", [{}])[0] raises IndexError)
Responses ==
    {[shape |-> "text", text |-> t] : t \in Texts}
    \cup {[shape |-> "no_candidates", text |-> Text("none", Undecodable, NoBraces)]}

NoResponse == [shape |-> "none", text |-> Text("none", Undecodable, NoBraces)]

\* _call_gemini after the service answered: (parsed, raw), or an exception
ParseResponse(r) ==
    IF r.shape = "no_candidates"
    THEN [raised |-> TRUE, reason |-> "response shape", parsed |-> Undecodable,
          raw |-> <<>>]
    ELSE IF r.text.direct.kind # "undecodable"
    THEN [raised |-> FALSE, reason |-> "", parsed |-> r.text.direct,
          raw |-> r.text.raw]
    ELSE IF r.text.braces.kind = "object"
    THEN [raised |-> FALSE, reason |-> "", parsed |-> r.text.braces,
          raw |-> r.text.raw]
    ELSE [raised |-> TRUE, reason |-> "unparseable", parsed |-> Undecodable,
          raw |-> <<>>]

----------------------------------------------------------------------------
(* analyze_question *)

\* no syllabus document is being normalized
NoInput == [kind |-> "none", items |-> <<>>]
NoDocument ==
    /\ obj = NoInput
    /\ vcalls = <<>>

\* no question paper is being analysed
NoPaper ==
    /\ parsed_syllabus = <<>>
    /\ questions_text = <<>>
    /\ questions = <<>>
    /\ results = <<>>

OutKeys == {"question_text", "question_type", "probable_topic", "course_outcome",
            "subject_name", "subject_code", "year", "semester",
            "confidence_score", "ai_raw_output", "error_message"}

\* the `out` dict as constructed
InitialOut(q) ==
    [question_text |-> q,
     question_type |-> NotFound,
     probable_topic |-> NotFound,
     course_outcome |-> NotFound,
     subject_name |-> NotFound,
     subject_code |-> NotFound,
     year |-> NotFound,
     semester |-> NotFound,
     confidence_score |-> Num(0),
     ai_raw_output |-> None,
     error_message |-> None]

GeminiError(reason) == <<"Gemini error: ", reason>>
FallbackError == <<"Fallback matcher error: ", "AttributeError">>
NoFailure == "none"

\* o.update(d) for the keys of d that o has
Update(o, d) == [k \in DOMAIN o |-> IF k \in DOMAIN d THEN d[k] ELSE o[k]]

\* `k in parsed` is true for some key of out
HasOutKey(p) ==
    CASE p.kind = "object" -> \E k \in OutKeys : k \in DOMAIN p.fields
      [] p.kind = "array" -> \E k \in OutKeys : \E i \in 1..Len(p.items) : p.items[i] = <<k>>
      [] p.kind = "string" -> \E k \in OutKeys : IsSubstr(<<k>>, p.s)
      [] OTHER -> FALSE

\* ApplyParsed with ai_raw_output assigned before the comprehension is evaluated
ApplyParsedLeaky(o, p, raw) ==
    IF p.kind \in {"number", "null"} \/ (p.kind \in {"array", "string"} /\ HasOutKey(p))
    THEN [raised |-> TRUE, reason |-> "not a mapping",
          out |-> [o EXCEPT !.ai_raw_output = raw]]
    ELSE [raised |-> FALSE, reason |-> "",
          out |-> [Update(o, p.fields) EXCEPT !.ai_raw_output = raw]]

\* the body of the try block after _call_gemini returned (parsed, raw):
\* the dict comprehension, out.update, ai_raw_output and float()
ApplyParsed(o, p, raw) ==
    IF p.kind \in {"number", "null"}
    THEN \* `k in parsed`: TypeError
         [raised |-> TRUE, reason |-> "not iterable", out |-> o]
    ELSE IF p.kind \in {"array", "string"}
    THEN IF HasOutKey(p)
         THEN \* parsed.get: AttributeError inside the comprehension
              [raised |-> TRUE, reason |-> "no get", out |-> o]
         ELSE \* nothing to update; parsed.get raises inside the inner try
              [raised |-> FALSE, reason |-> "",
               out |-> [o EXCEPT !.ai_raw_output = raw]]
    ELSE LET o1 == Update(o, p.fields)
             o2 == [o1 EXCEPT !.ai_raw_output = raw]
             v == IF "confidence_score" \in DOMAIN p.fields
                  THEN p.fields["confidence_score"]
                  ELSE o2.confidence_score
         IN [raised |-> FALSE, reason |-> "",
             out |-> IF v.num
                     THEN [o2 EXCEPT !.confidence_score = Num(v.val)]
                     ELSE \* float() raised: out.get("confidence_score", 0.0)
                          o2]

\* FallbackBlock without its try/except
FallbackBlockUncaught(o, r) ==
    IF r.raised
    THEN [out |-> o, escaped |-> TRUE]
    ELSE [out |-> Update(o, r.best), escaped |-> FALSE]

\* the fallback try block
FallbackBlock(o, r) ==
    IF r.raised
    THEN [out |-> [o EXCEPT !.error_message = FallbackError], escaped |-> FALSE]
    ELSE [out |-> Update(o, r.best), escaped |-> FALSE]

NotCalled == [called |-> FALSE, raised |-> FALSE, best |-> InitialBest(<<>>)]

Init ==
    /\ question \in Questions
    /\ syllabus \in Catalogs(SmallPool)
    /\ genai \in BOOLEAN
    /\ api_key \in BOOLEAN
    /\ pc = "start"
    /\ out = InitialOut(question)
    /\ resp = NoResponse
    /\ requests = 0
    /\ kb = NotCalled
    /\ kmCalls = 0
    /\ aiFailure = NoFailure
    /\ returned = 0
    /\ escaped = FALSE
    /\ NoDocument
    /\ NoPaper

\* the except clause of the AI attempt: record the reason, go to the fallback
AIFailed(o, reason) ==
    /\ out' = [o EXCEPT !.error_message = GeminiError(reason)]
    /\ aiFailure' = reason
    /\ pc' = "fallback"

\* `if genai and GEMINI_API_KEY`
ChooseStrategy ==
    /\ pc = "start"
    /\ pc' = IF genai /\ api_key THEN "generate_text" ELSE "fallback"
    /\ UNCHANGED <<question, syllabus, genai, api_key, out, resp, requests, kb,
                   kmCalls, aiFailure, returned, escaped>>
    /\ UNCHANGED <<docVars, appVars>>

\* genai.generate_text(...) returns a response
GenerateTextReturns ==
    /\ pc = "generate_text"
    /\ requests' = requests + 1
    /\ \E r \in Responses : resp' = r
    /\ pc' = "parse"
    /\ UNCHANGED <<question, syllabus, genai, api_key, out, kb, kmCalls,
                   aiFailure, returned, escaped>>
    /\ UNCHANGED <<docVars, appVars>>

\* genai.generate_text(...) raises: try the alternate API shape
GenerateTextRaises ==
    /\ pc = "generate_text"
    /\ requests' = requests + 1
    /\ pc' = "generate"
    /\ UNCHANGED <<question, syllabus, genai, api_key, out, resp, kb, kmCalls,
                   aiFailure, returned, escaped>>
    /\ UNCHANGED <<docVars, appVars>>

\* genai.generate(...) returns a response
GenerateReturns ==
    /\ pc = "generate"
    /\ requests' = requests + 1
    /\ \E r \in Responses : resp' = r
    /\ pc' = "parse"
    /\ UNCHANGED <<question, syllabus, genai, api_key, out, kb, kmCalls,
                   aiFailure, returned, escaped>>
    /\ UNCHANGED <<docVars, appVars>>

\* GenerateRaises with a retry of the first API
GenerateRaisesRetry ==
    /\ pc = "generate"
    /\ requests' = requests + 1
    /\ pc' = "generate_text"
    /\ UNCHANGED <<question, syllabus, genai, api_key, out, resp, kb, kmCalls,
                   aiFailure, returned, escaped>>
    /\ UNCHANGED <<docVars, appVars>>

\* genai.generate(...) raises too: the exception leaves _call_gemini
GenerateRaises ==
    /\ pc = "generate"
    /\ requests' = requests + 1
    /\ AIFailed(out, "transport")
    /\ UNCHANGED <<question, syllabus, genai, api_key, resp, kb, kmCalls,
                   returned, escaped>>
    /\ UNCHANGED <<docVars, appVars>>

\* the rest of _call_gemini and of the try block of analyze_question
HandleResponse ==
    /\ pc = "parse"
    /\ LET c == ParseResponse(resp)
           a == ApplyParsed(out, c.parsed, c.raw)
       IN IF c.raised THEN AIFailed(out, c.reason) /\ returned' = returned
          ELSE IF a.raised THEN AIFailed(a.out, a.reason) /\ returned' = returned
          ELSE /\ out' = a.out
               /\ pc' = "done"
               /\ returned' = returned + 1
               /\ aiFailure' = aiFailure
    /\ UNCHANGED <<question, syllabus, genai, api_key, resp, requests, kb,
                   kmCalls, escaped>>
    /\ UNCHANGED <<docVars, appVars>>

\* kb = _keyword_matcher(question_text, syllabus); out.update(kb); return out
Fallback ==
    /\ pc = "fallback"
    /\ LET r == _keyword_matcher(question, syllabus)
           f == FallbackBlock(out, r)
       IN /\ kb' = r
          /\ out' = f.out
          /\ escaped' = f.escaped
          /\ pc' = IF f.escaped THEN "raised" ELSE "done"
          /\ returned' = IF f.escaped THEN returned ELSE returned + 1
    /\ kmCalls' = kmCalls + 1
    /\ UNCHANGED <<question, syllabus, genai, api_key, resp, requests, aiFailure>>
    /\ UNCHANGED <<docVars, appVars>>

Next ==
    \/ ChooseStrategy
    \/ GenerateTextReturns
    \/ GenerateTextRaises
    \/ GenerateReturns
    \/ GenerateRaises
    \/ HandleResponse
    \/ Fallback

Spec == Init /\ [][Next]_vars

----------------------------------------------------------------------------
(* _keyword_matcher on its own, over the larger pool of subject records *)

InitKM ==
    /\ question \in Questions
    /\ syllabus \in Catalogs(SubjectPool)
    /\ genai = FALSE
    /\ api_key = FALSE
    /\ pc = "matcher"
    /\ out = InitialOut(question)
    /\ resp = NoResponse
    /\ requests = 0
    /\ kb = NotCalled
    /\ kmCalls = 0
    /\ aiFailure = NoFailure
    /\ returned = 0
    /\ escaped = FALSE
    /\ NoDocument
    /\ NoPaper

\* one call _keyword_matcher(question, syllabus)
CallMatcher ==
    /\ pc = "matcher"
    /\ kb' = _keyword_matcher(question, syllabus)
    /\ kmCalls' = kmCalls + 1
    /\ pc' = "matched"
    /\ UNCHANGED <<question, syllabus, genai, api_key, out, resp, requests,
                   aiFailure, returned, escaped>>
    /\ UNCHANGED <<docVars, appVars>>

NextKM == CallMatcher

SpecKM == InitKM /\ [][NextKM]_vars

----------------------------------------------------------------------------
(* _keyword_matcher on questions that carry question-type keywords *)

TypeWords == {<<"D","e","f","i","n","e">>,
              <<"e","x","p","l","a","i","n">>,
              <<"m","c","q">>,
              <<"u","n","d","e","f","i","n","e","d">>,
              <<"W","h","a","t"," ","i","s">>,
              <<"a",")","b">>,
              <<"D","e","f","i","n","e",",","D","i","s","c","u","s","s">>,
              S_osi}

RECURSIVE TypeQuestionsOf(_)
TypeQuestionsOf(n) ==
    IF n = 0 THEN {<<>>}
    ELSE IF n = 1 THEN TypeWords
    ELSE {w \o <<" ">> \o r : w \in TypeWords, r \in TypeQuestionsOf(n - 1)}

TypeQuestions == UNION {TypeQuestionsOf(n) : n \in 0..MaxQWords}

InitQT ==
    /\ question \in TypeQuestions
    /\ syllabus = <<>>
    /\ genai = FALSE
    /\ api_key = FALSE
    /\ pc = "matcher"
    /\ out = InitialOut(question)
    /\ resp = NoResponse
    /\ requests = 0
    /\ kb = NotCalled
    /\ kmCalls = 0
    /\ aiFailure = NoFailure
    /\ returned = 0
    /\ escaped = FALSE
    /\ NoDocument
    /\ NoPaper

SpecQT == InitQT /\ [][NextKM]_vars

----------------------------------------------------------------------------
(* syllabus_parser.py: validate_syllabus_json and split_topics *)

IsBlank(c) == c \in Whitespace

RECURSIVE LStrip(_)
LStrip(s) == IF s # <<>> /\ IsBlank(Head(s)) THEN LStrip(Tail(s)) ELSE s

RECURSIVE RStrip(_)
RStrip(s) ==
    IF s # <<>> /\ IsBlank(s[Len(s)]) THEN RStrip(SubSeq(s, 1, Len(s) - 1)) ELSE s

\* str.strip()
Strip(s) == RStrip(LStrip(s))

NonBlank(s) == Strip(s) # <<>>

\* the character class of the re.split of split_topics
\* "bullet" stands for U+2022 and "endash" for U+2013, one character each
TopicDelimiters == {"\n", "bullet", ";", "-", "endash"}

RECURSIVE PiecesFrom(_, _, _)
\* re.split on runs of delimiters; a run leaves no piece that survives the
\* `if p.strip()` filter, so every delimiter closes a piece
PiecesFrom(s, i, cur) ==
    IF i > Len(s) THEN <<cur>>
    ELSE IF s[i] \in TopicDelimiters
         THEN <<cur>> \o PiecesFrom(s, i + 1, <<>>)
         ELSE PiecesFrom(s, i + 1, Append(cur, s[i]))

StripAll(parts) == [i \in 1..Len(parts) |-> Strip(parts[i])]

\* split_topics(text)
split_topics(text) == StripAll(SelectSeq(PiecesFrom(text, 1, <<>>), NonBlank))

\* JSON values of a "topics" or "course_outcomes" key
AList(xs) == [kind |-> "list", items |-> xs, text |-> <<>>]
AStr(t) == [kind |-> "str", items |-> <<>>, text |-> t]
NoValue == [kind |-> "absent", items |-> <<>>, text |-> <<>>]

\* truth value of a str (or of a missing key: d.get gives None)
Truthy(x) == x # Absent /\ x # <<>>
\* truth value of a list or str value
TruthyValue(v) ==
    \/ v.kind = "list" /\ v.items # <<>>
    \/ v.kind = "str" /\ v.text # <<>>

\* a or b or c or ""
FirstTruthy(xs) ==
    IF \E i \in 1..Len(xs) : Truthy(xs[i])
    THEN xs[CHOOSE i \in 1..Len(xs) :
                Truthy(xs[i]) /\ \A j \in 1..(i - 1) : ~Truthy(xs[j])]
    ELSE <<>>

\* a or b or []
FirstTruthyValue(a, b) ==
    IF TruthyValue(a) THEN a ELSE IF TruthyValue(b) THEN b ELSE AList(<<>>)

\* topics if isinstance(topics, list) else [t.strip() for t in split_topics(str(topics))]
AsList(v) == IF v.kind = "list" THEN v.items ELSE StripAll(split_topics(v.text))

\* d.get(key, "")
GetOrEmpty(x) == IF x = Absent THEN <<>> ELSE x

\* the dict appended to `cleaned` for one item
CleanedRecord(item) ==
    [subject |-> Strip(FirstTruthy(<<item.subject, item.subject_name, item.title>>)),
     subject_code |-> Strip(FirstTruthy(<<item.subject_code, item.code>>)),
     year |-> GetOrEmpty(item.year),
     semester |-> GetOrEmpty(item.semester),
     topics |-> AsList(FirstTruthyValue(item.topics, item.syllabus)),
     course_outcomes |->
         AsList(FirstTruthyValue(item.course_outcomes, item.course_outcome)),
     raw_text |-> GetOrEmpty(item.raw_text)]

\* subject.strip() or code.strip() on a value that is not a str
ItemRaises(item) ==
    \/ FirstTruthy(<<item.subject, item.subject_name, item.title>>) = NonStr
    \/ FirstTruthy(<<item.subject_code, item.code>>) = NonStr

RECURSIVE CleanedFrom(_, _)
\* the loop `for item in obj`
CleanedFrom(items, i) ==
    IF i > Len(items) THEN <<>>
    ELSE IF ~items[i].is_dict THEN CleanedFrom(items, i + 1)
    ELSE <<CleanedRecord(items[i])>> \o CleanedFrom(items, i + 1)

\* the isinstance test that also lets a mapping through
NotAListLenient(o) == o.kind \notin {"list", "mapping"}

\* not isinstance(obj, list)
NotAList(o) == o.kind # "list"

\* validate_syllabus_json that pops the items off its input as it cleans them
ValidateConsuming(o) ==
    IF NotAList(o)
    THEN [error |-> "ValueError", catalog |-> <<>>, obj |-> o]
    ELSE IF \E i \in 1..Len(o.items) : o.items[i].is_dict /\ ItemRaises(o.items[i])
    THEN [error |-> "AttributeError", catalog |-> <<>>, obj |-> o]
    ELSE [error |-> "none", catalog |-> CleanedFrom(o.items, 1),
          obj |-> [o EXCEPT !.items = <<>>]]

\* the body of validate_syllabus_json: the exception or the cleaned list, and
\* the input object, which the body only reads
ValidationResult(o) ==
    IF NotAList(o)
    THEN [error |-> "ValueError", catalog |-> <<>>, obj |-> o]
    ELSE IF \E i \in 1..Len(o.items) : o.items[i].is_dict /\ ItemRaises(o.items[i])
    THEN [error |-> "AttributeError", catalog |-> <<>>, obj |-> o]
    ELSE [error |-> "none", catalog |-> CleanedFrom(o.items, 1), obj |-> o]

\* the call validate_syllabus_json(o): the exception or the catalog, and the
\* input object as the call leaves it
validate_syllabus_json(o) == ValidationResult(o)

(* Structured inputs *)

S_Osi == <<"O","s","i">>
S_Osi_padded == <<" ","O","s","i"," ">>
S_blank == <<" "," ">>
S_Net == <<"N","e","t">>
S_topics_text == <<"t","c","p",";","l","a","n","\n","-"," ","o","s","i",";",";"," ","t","c","p">>
S_cos_text == <<"o","s","i"," ","t","c","p",";"," ","o","s","i"," ","t","c","p">>
S_raw == <<"r","a","w">>

EmptyItem ==
    [is_dict |-> TRUE, subject |-> Absent, subject_name |-> Absent,
     title |-> Absent, subject_code |-> Absent, code |-> Absent,
     topics |-> NoValue, syllabus |-> NoValue, course_outcomes |-> NoValue,
     course_outcome |-> NoValue, year |-> Absent, semester |-> Absent,
     raw_text |-> Absent]

ItemPool ==
    {EmptyItem,
     [EmptyItem EXCEPT !.is_dict = FALSE],
     [EmptyItem EXCEPT !.subject = S_Osi, !.subject_code = S_IP,
                       !.year = S_2nd, !.semester = S_1st,
                       !.topics = AList(<<S_tcp, S_tcp, S_blank, S_lan>>),
                       !.course_outcomes = AStr(S_cos_text),
                       !.raw_text = S_raw],
     [EmptyItem EXCEPT !.subject = S_empty, !.subject_name = S_Osi_padded,
                       !.code = S_IP, !.syllabus = AStr(S_topics_text),
                       !.course_outcome = AList(<<S_osi_tcp>>)],
     [EmptyItem EXCEPT !.subject_name = S_empty, !.title = S_Net,
                       !.topics = AList(<<S_lan>>)],
     [EmptyItem EXCEPT !.subject = S_blank, !.topics = AList(<<S_tcp>>)],
     [EmptyItem EXCEPT !.subject = NonStr]}

\* the top-level inputs: lists of items, and values that are no list
Inputs ==
    {[kind |-> "list", items |-> xs] :
        xs \in UNION {SeqsOf(ItemPool, n) : n \in 0..MaxItems}}
    \cup {[kind |-> "mapping", items |-> <<[EmptyItem EXCEPT !.subject = S_Osi]>>],
          [kind |-> "string", items |-> <<>>],
          [kind |-> "null", items |-> <<>>]}

NoMatching ==
    /\ question = <<>>
    /\ syllabus = <<>>
    /\ genai = FALSE
    /\ api_key = FALSE
    /\ out = InitialOut(<<>>)
    /\ resp = NoResponse
    /\ requests = 0
    /\ kb = NotCalled
    /\ kmCalls = 0
    /\ aiFailure = NoFailure
    /\ returned = 0
    /\ escaped = FALSE

matchVars == <<question, syllabus, genai, api_key, out, resp, requests, kb,
               kmCalls, aiFailure, returned, escaped>>

InitValidate ==
    /\ obj \in Inputs
    /\ vcalls = <<>>
    /\ pc = "validate"
    /\ NoMatching
    /\ NoPaper

\* one call validate_syllabus_json(obj); the caller may call it again
Validate ==
    /\ pc = "validate"
    /\ Len(vcalls) < 2
    /\ LET r == validate_syllabus_json(obj)
       IN /\ vcalls' = Append(vcalls, [error |-> r.error, catalog |-> r.catalog])
          /\ obj' = r.obj
    /\ UNCHANGED <<pc, matchVars, appVars>>

NextValidate == Validate

SpecValidate == InitValidate /\ [][NextValidate]_vars

----------------------------------------------------------------------------
(* syllabus_parser.py: the regular expressions and extract_topics_and_cos *)

\* the k-th smallest member of a set of positions
Nth(S, k) == CHOOSE i \in S : Cardinality({j \in S : j < i}) = k - 1

\* the pieces of s between the separators of width w that start at the
\* positions in starts
PiecesBetween(s, starts, w) ==
    [k \in 1..(Cardinality(starts) + 1) |->
        SubSeq(s,
               IF k = 1 THEN 1 ELSE Nth(starts, k - 1) + w,
               IF k = Cardinality(starts) + 1 THEN Len(s) ELSE Nth(starts, k) - 1)]

\* str.splitlines() of a text whose only line boundary is "\n": a line ends
\* at each "\n", and nothing follows the last one
SplitLines(s) ==
    LET ps == PiecesBetween(s, {i \in 1..Len(s) : s[i] = "\n"}, 1)
    IN IF ps[Len(ps)] = <<>> THEN SubSeq(ps, 1, Len(ps) - 1) ELSE ps

\* [A-Z0-9/] under re.IGNORECASE
IsCodeChar(c) ==
    \/ \E i \in 1..26 : UpperLetters[i] = c \/ LowerLetters[i] = c
    \/ c \in Digits
    \/ c = "/"

\* the first position from i on whose character is not in the class: what a
\* greedy class* leaves
SkipWhile(s, i, class) ==
    IF i > Len(s) THEN i
    ELSE CHOOSE j \in i..(Len(s) + 1) :
            /\ j > Len(s) \/ s[j] \notin class
            /\ \A k \in i..(j - 1) : s[k] \in class

\* what the greedy [A-Z0-9/]+ leaves
SkipCode(s, i) ==
    IF i > Len(s) THEN i
    ELSE CHOOSE j \in i..(Len(s) + 1) :
            /\ j > Len(s) \/ ~IsCodeChar(s[j])
            /\ \A k \in i..(j - 1) : IsCodeChar(s[k])

\* one optional character of the class at position i
SkipOne(s, i, class) == IF i <= Len(s) /\ s[i] \in class THEN i + 1 ELSE i

NoMatch == [matched |-> FALSE, code |-> <<>>, title |-> <<>>]

\* SUBJECT_HEADING_RE.match(line): each part of the pattern is greedy, and
\* when nothing is left for (.+) the last part that consumed a character
\* gives its last character back
HeadingMatch(line) ==
    LET a == SkipWhile(line, 1, Whitespace)
        b == SkipOne(line, a, {"("})
        c == SkipCode(line, b)
        d == SkipOne(line, c, {")"})
        e == SkipWhile(line, d, Whitespace)
        f == SkipOne(line, e, {"-", ":", ")"})
        g == SkipWhile(line, f, Whitespace)
    IN IF c = b THEN NoMatch
       ELSE IF g <= Len(line)
       THEN [matched |-> TRUE, code |-> SubSeq(line, b, c - 1),
             title |-> SubSeq(line, g, Len(line))]
       ELSE IF g > c
       THEN [matched |-> TRUE, code |-> SubSeq(line, b, c - 1),
             title |-> <<line[Len(line)]>>]
       ELSE IF c - b >= 2
       THEN [matched |-> TRUE, code |-> SubSeq(line, b, c - 2),
             title |-> <<line[c - 1]>>]
       ELSE NoMatch

\* the literal w at position i of s, ignoring case; w is in lower case
WordAt(s, i, w) ==
    /\ i + Len(w) - 1 <= Len(s)
    /\ Lower(SubSeq(s, i, i + Len(w) - 1)) = w

OrdinalSuffixes == {<<"s","t">>, <<"n","d">>, <<"r","d">>, <<"t","h">>}

\* \d+(?:st|nd|rd|th)\s+<word> at position i: the position after it, or 0
OrdinalEnd(s, i, word) ==
    LET a == SkipWhile(s, i, Digits)
        b == SkipWhile(s, a + 2, Whitespace)
    IN IF /\ a > i
          /\ \E x \in OrdinalSuffixes : WordAt(s, a, x)
          /\ b > a + 2
          /\ WordAt(s, b, word)
       THEN b + Len(word)
       ELSE 0

W_year == <<"y","e","a","r">>
W_semester == <<"s","e","m","e","s","t","e","r">>

\* YEAR_SEM_RE.search(text): the leftmost year phrase; the lazy .{0,40}?
\* takes nothing, so group 2 is the semester phrase right after it, if any
YearSemSearch(text) ==
    IF \E i \in 1..Len(text) : OrdinalEnd(text, i, W_year) # 0
    THEN LET i == CHOOSE k \in 1..Len(text) :
                      /\ OrdinalEnd(text, k, W_year) # 0
                      /\ \A j \in 1..(k - 1) : OrdinalEnd(text, j, W_year) = 0
             e == OrdinalEnd(text, i, W_year)
             e2 == OrdinalEnd(text, e, W_semester)
         IN [matched |-> TRUE, year |-> SubSeq(text, i, e - 1),
             sem |-> IF e2 # 0 THEN SubSeq(text, e, e2 - 1) ELSE <<>>]
    ELSE [matched |-> FALSE, year |-> <<>>, sem |-> <<>>]

\* the phrases of line 114
OutcomePhrases ==
    {<<"c","o","u","r","s","e"," ","o","u","t","c","o","m","e">>, <<"c","o","u","r","s","e"," ","o","u","t","c","o","m","e","s">>, <<"l","e","a","r","n","i","n","g"," ","o","u","t","c","o","m","e","s">>, <<"o","u","t","c","o","m","e","s">>, <<"c","o","u","r","s","e"," ","o","b","j","e","c","t","i","v","e">>}

\* the alternatives of the re.sub of line 116, with the optional final s
OutcomePrefixes == {<<"c","o","u","r","s","e"," ","o","u","t","c","o","m","e">>, <<"l","e","a","r","n","i","n","g"," ","o","u","t","c","o","m","e">>, <<"c","o","u","r","s","e"," ","o","b","j","e","c","t","i","v","e">>}

\* re.sub(r'^(course outcomes?|learning outcomes?|course objectives?)[:\-\s]*', '', line, flags=re.I)
Remainder(line) ==
    IF \E w \in OutcomePrefixes : WordAt(line, 1, w)
    THEN LET w == CHOOSE x \in OutcomePrefixes : WordAt(line, 1, x)
             a == SkipOne(Lower(line), Len(w) + 1, {"s"})
             b == SkipWhile(line, a, Whitespace \cup {":", "-"})
         IN SubSeq(line, b, Len(line))
    ELSE line

Bullets == {"bullet", "-", "*"}

UnitWords == {<<"m","o","d","u","l","e">>, <<"u","n","i","t">>, <<"c","h","a","p","t","e","r">>}

\* the test of lines 125 and 129: the line is taken as a topic
IsTopicLine(line) ==
    \/ line # <<>> /\ line[1] \in Bullets
    \/ \E i \in 1..Len(line) : line[i] \in {",", ":"}
    \/ \E w \in UnitWords : WordAt(line, 1, w) /\ WordBoundary(line, Len(w))
    \/ Len(Split(line)) <= 12

RECURSIVE Dedupe(_, _)
\* list(dict.fromkeys(xs)): the first occurrence of each entry, in order
Dedupe(xs, seen) ==
    IF xs = <<>> THEN <<>>
    ELSE IF Head(xs) \in seen THEN Dedupe(Tail(xs), seen)
    ELSE <<Head(xs)>> \o Dedupe(Tail(xs), seen \cup {Head(xs)})

RECURSIVE ScanLines(_, _, _, _, _)
\* the loop over lines[1:] with its co_mode flag
ScanLines(lines, i, co_mode, topics, cos) ==
    IF i > Len(lines) THEN [topics |-> topics, cos |-> cos]
    ELSE LET line == lines[i]
         IN IF \E k \in OutcomePhrases : IsSubstr(k, Lower(line))
            THEN ScanLines(lines, i + 1, TRUE, topics,
                           IF NonBlank(Remainder(line))
                           THEN Append(cos, Strip(Remainder(line))) ELSE cos)
            ELSE IF co_mode
            THEN ScanLines(lines, i + 1, co_mode, topics, Append(cos, line))
            ELSE IF IsTopicLine(line)
            THEN ScanLines(lines, i + 1, co_mode, Append(topics, line), cos)
            ELSE ScanLines(lines, i + 1, co_mode, topics, cos)

\* the cleanup of lines 132-133
Cleanup(xs) == StripAll(SelectSeq(Dedupe(xs, {}), NonBlank))

\* extract_topics_and_cos with co_mode never set: every line is taken on its
\* own
ExtractLineByLine(block_text) ==
    LET lines == StripAll(SelectSeq(SplitLines(block_text), NonBlank))
        rest == SubSeq(lines, 2, Len(lines))
        IsTrigger(l) == \E k \in OutcomePhrases : IsSubstr(k, Lower(l))
        IsTopic(l) == ~IsTrigger(l) /\ IsTopicLine(l)
        triggers == SelectSeq(rest, IsTrigger)
    IN [topics |-> Cleanup(SelectSeq(rest, IsTopic)),
        cos |-> Cleanup([j \in 1..Len(triggers) |-> Remainder(triggers[j])])]

\* extract_topics_and_cos(block_text)
extract_topics_and_cos(block_text) ==
    LET lines == StripAll(SelectSeq(SplitLines(block_text), NonBlank))
        r == ScanLines(lines, 2, FALSE, <<>>, <<>>)
    IN [topics |-> Cleanup(r.topics), cos |-> Cleanup(r.cos)]

----------------------------------------------------------------------------
(* syllabus_parser.py: parse_syllabus_text *)

\* how many "\n" stand directly before position i
NewlinesBefore(s, i) ==
    i - 1 - CHOOSE j \in 0..(i - 1) :
                /\ j = 0 \/ s[j] # "\n"
                /\ \A k \in (j + 1)..(i - 1) : s[k] = "\n"

\* where the separators "\n\n" start, found from left to right without
\* overlap: in a run of newlines the 1st, 3rd, ... that has a successor
ParagraphBreaks(s) ==
    {i \in 1..(Len(s) - 1) :
        /\ s[i] = "\n"
        /\ s[i + 1] = "\n"
        /\ NewlinesBefore(s, i) % 2 = 0}

\* raw_text.split("\n\n")
SplitParagraphs(s) == PiecesBetween(s, ParagraphBreaks(s), 2)

\* the paragraphs of line 53 without the `if p.strip()` filter
ParagraphsUnfiltered(raw_text) == StripAll(SplitParagraphs(raw_text))

\* [p.strip() for p in raw_text.split("\n\n") if p.strip()]
Paragraphs(raw_text) ==
    StripAll(SelectSeq(SplitParagraphs(raw_text), NonBlank))

\* the indices (from 1) of the lines that SUBJECT_HEADING_RE matches
HeadingsIdx(lines) ==
    SelectSeq([i \in 1..Len(lines) |-> i], LAMBDA i : HeadingMatch(lines[i]).matched)

\* the dict appended to `blocks` for a block whose title line is first_line
BlockRecord(first_line, block) ==
    LET m == HeadingMatch(first_line)
        code == IF m.matched THEN m.code ELSE <<>>
        title == IF m.matched THEN m.title ELSE first_line
        tc == extract_topics_and_cos(block)
    IN [subject |-> Strip(title),
        subject_code |-> Strip(code),
        year |-> <<>>,
        semester |-> <<>>,
        topics |-> tc.topics,
        course_outcomes |-> tc.cos,
        raw_text |-> block]

\* the fallback of lines 51-71: one record per paragraph; p.splitlines()[0]
\* raises IndexError on a paragraph without a line
ParagraphBlocks(raw_text) ==
    LET ps == Paragraphs(raw_text)
    IN IF \E i \in 1..Len(ps) : SplitLines(ps[i]) = <<>>
       THEN [error |-> "IndexError", catalog |-> <<>>]
       ELSE [error |-> "none",
             catalog |-> [i \in 1..Len(ps) |->
                              BlockRecord(SplitLines(ps[i])[1], ps[i])]]

\* HeadingBlocks with every block running through the next heading line
HeadingBlocksOverlapping(lines, idx) ==
    [k \in 1..Len(idx) |->
        LET start == idx[k]
            end == IF k < Len(idx) THEN idx[k + 1] ELSE Len(lines)
        IN BlockRecord(lines[start],
                       Strip(JoinWith(<<"\n">>, SubSeq(lines, start, end))))]

\* lines 73-91: one record per heading line, the block running to the next
HeadingBlocks(lines, idx) ==
    [k \in 1..Len(idx) |->
        LET start == idx[k]
            end == IF k < Len(idx) THEN idx[k + 1] - 1 ELSE Len(lines)
        IN BlockRecord(lines[start],
                       Strip(JoinWith(<<"\n">>, SubSeq(lines, start, end))))]

\* lines 93-101: year and semester of the whole document for every block
WithYearSem(blocks, raw_text) ==
    LET ym == YearSemSearch(raw_text)
    IN IF ym.matched
       THEN [k \in 1..Len(blocks) |->
                [blocks[k] EXCEPT
                    !.year = IF @ = <<>> THEN Strip(ym.year) ELSE @,
                    !.semester = IF @ = <<>> THEN Strip(ym.sem) ELSE @]]
       ELSE blocks

\* parse_syllabus_text(raw_text): the exception or the list of blocks
parse_syllabus_text(raw_text) ==
    LET lines == SplitLines(raw_text)
        idx == HeadingsIdx(lines)
    IN IF idx = <<>>
       THEN ParagraphBlocks(raw_text)
       ELSE [error |-> "none",
             catalog |-> WithYearSem(HeadingBlocks(lines, idx), raw_text)]

(* Raw syllabus texts *)

L_heading == <<"(","I","T","/","P","C","/","B","/","T","/","2","1","1",")"," ","D","a","t","a"," ","S","t","r","u","c","t","u","r","e","s">>
L_intro == <<"I","n","t","r","o","d","u","c","t","i","o","n",":"," ","a","r","r","a","y","s",","," ","l","i","s","t","s",".">>
L_outcomes == <<"C","o","u","r","s","e"," ","O","u","t","c","o","m","e","s",":"," ","C","O","1"," ","u","n","d","e","r","s","t","a","n","d"," ","s","t","r","u","c","t","u","r","e","s">>
L_bullet == <<"-"," ","t","c","p">>
L_bullet_co == <<"*"," ","O","u","t","c","o","m","e","s">>
L_year == <<"2","n","d"," ","Y","e","a","r"," ","1","s","t"," ","S","e","m","e","s","t","e","r">>
L_spaces == <<" "," ">>

LinePool ==
    {L_heading, L_intro, L_outcomes, L_bullet, L_bullet_co, L_year,
     L_spaces, S_empty}

\* the texts of at most MaxLines lines
Texts_raw ==
    {JoinWith(<<"\n">>, ls) :
        ls \in UNION {SeqsOf(LinePool, n) : n \in 0..MaxLines}}

TextInput(t) == [kind |-> "text", items |-> t]

InitParse ==
    /\ obj \in {TextInput(t) : t \in Texts_raw}
    /\ vcalls = <<>>
    /\ pc = "parse_text"
    /\ NoMatching
    /\ NoPaper

\* one call parse_syllabus_text(raw_text)
ParseText ==
    /\ pc = "parse_text"
    /\ vcalls = <<>>
    /\ vcalls' = <<parse_syllabus_text(obj.items)>>
    /\ UNCHANGED <<obj, pc, matchVars, appVars>>

NextParse == ParseText

SpecParse == InitParse /\ [][NextParse]_vars

----------------------------------------------------------------------------
(* app.py: the question splitting of analyze_questions_against_syllabus *)

\* [a-zA-Z0-9]
IsAlnum(c) ==
    \/ \E i \in 1..26 : UpperLetters[i] = c \/ LowerLetters[i] = c
    \/ c \in Digits

\* what the greedy [a-zA-Z0-9]+ leaves
SkipAlnum(s, i) ==
    IF i > Len(s) THEN i
    ELSE CHOOSE j \in i..(Len(s) + 1) :
            /\ j > Len(s) \/ ~IsAlnum(s[j])
            /\ \A k \in i..(j - 1) : IsAlnum(s[k])

\* [a-zA-Z0-9]+\s*[\.\)] at position q: the position after it, or 0
MarkerEnd(s, q) ==
    LET a == SkipAlnum(s, q)
        b == SkipWhile(s, a, Whitespace)
    IN IF a > q /\ b <= Len(s) /\ s[b] \in {".", ")"} THEN b + 1 ELSE 0

\* where the marker after \n\s* at position p starts
MarkerAfterBreak(s, p) == SkipWhile(s, p + 1, Whitespace)

\* \n\s*[a-zA-Z0-9]+\s*[\.\)] at position p: the lookahead of the pattern,
\* and its second way to start
BreakAt(s, p) ==
    /\ p <= Len(s)
    /\ s[p] = "\n"
    /\ MarkerEnd(s, MarkerAfterBreak(s, p)) # 0

\* the pattern matches at position p: ^ with a marker, or a break
MatchStartsAt(s, p) ==
    \/ p = 1 /\ MarkerEnd(s, 1) # 0
    \/ BreakAt(s, p)

RECURSIVE FindAllFrom(_, _)
\* question_split_pattern.findall(s) from position p on: the pairs (num, text)
\* of the matches, the lazy (.*?) running to the next break or to the end
FindAllFrom(s, p) ==
    IF \A m \in p..Len(s) : ~MatchStartsAt(s, m) THEN <<>>
    ELSE LET m == CHOOSE k \in p..Len(s) :
                      /\ MatchStartsAt(s, k)
                      /\ \A j \in p..(k - 1) : ~MatchStartsAt(s, j)
             q == IF BreakAt(s, m) THEN MarkerAfterBreak(s, m) ELSE m
             e == MarkerEnd(s, q)
             t == SkipWhile(s, e, Whitespace)
             r == IF \E k \in t..Len(s) : BreakAt(s, k)
                  THEN CHOOSE k \in t..Len(s) :
                           /\ BreakAt(s, k)
                           /\ \A j \in t..(k - 1) : ~BreakAt(s, j)
                  ELSE Len(s) + 1
         IN <<[num |-> SubSeq(s, q, e - 1), text |-> SubSeq(s, t, r - 1)]>>
            \o FindAllFrom(s, r)

\* f"{num} {text.strip()}" for every match
NumberedQuestions(s) ==
    LET raw == FindAllFrom(s, 1)
    IN [k \in 1..Len(raw) |-> raw[k].num \o <<" ">> \o Strip(raw[k].text)]

MoreThanFiveWords(q) == Len(Split(q)) > 5

\* the fallback of lines 215-218: the stripped non-blank lines of more than
\* five words
LongLines(s) ==
    SelectSeq(StripAll(SelectSeq(PiecesBetween(s, {i \in 1..Len(s) : s[i] = "\n"}, 1),
                                 NonBlank)),
              MoreThanFiveWords)

\* the list `questions` of lines 212-218
SplitQuestions(s) ==
    IF NumberedQuestions(s) # <<>> THEN NumberedQuestions(s) ELSE LongLines(s)

----------------------------------------------------------------------------
(* app.py: the matching loop of analyze_questions_against_syllabus *)

NA == <<"N","/","A">>

\* where a maximal run of word characters starts
WordStarts(s) ==
    {i \in 1..Len(s) : IsWordChar(s[i]) /\ (i = 1 \/ ~IsWordChar(s[i - 1]))}

\* the position after the run of word characters that starts at i
SkipWord(s, i) ==
    CHOOSE j \in (i + 1)..(Len(s) + 1) :
        /\ j > Len(s) \/ ~IsWordChar(s[j])
        /\ \A k \in i..(j - 1) : IsWordChar(s[k])

\* set(re.findall(r'\b\w+\b', s))
Words(s) == {SubSeq(s, i, SkipWord(s, i) - 1) : i \in WordStarts(s)}

\* len(question_keywords.intersection(topic_keywords))
CommonKeywords(q, topic) == Cardinality(Words(q) \cap Words(topic))

DigitChars == <<"0","1","2","3","4","5","6","7","8","9">>

RECURSIVE Decimal(_)
\* str(n) for a natural number
Decimal(n) ==
    IF n < 10 THEN <<DigitChars[n + 1]>>
    ELSE Decimal(n \div 10) \o <<DigitChars[(n % 10) + 1]>>

\* the question_id with the index of enumerate taken as it is
QuestionIdFromZero(i) == <<"Q">> \o Decimal(i)

\* f"Q{i+1}" for the index i of enumerate, which counts from 0
QuestionId(i) == <<"Q">> \o Decimal(i + 1)

\* the best_match dict of lines 224-235; confidence_score in tenths of a
\* percent
InitialMatch(i, q) ==
    [question_id |-> QuestionId(i),
     question_text |-> q,
     matched_subject_code |-> NA,
     matched_subject_name |-> NA,
     matched_semester |-> NA,
     matched_year |-> NA,
     matched_chapter_or_section |-> NA,
     matched_course_outcome |-> NA,
     confidence_score |-> 0,
     analysis_notes |-> [kind |-> "none", ratio |-> 0]]

\* the four fields every best_match.update sets, and the note
Attributed(bm, subj, kind, ratio) ==
    [bm EXCEPT !.matched_subject_code = subj.code,
               !.matched_subject_name = subj.name,
               !.matched_semester = subj.semester,
               !.matched_year = subj.year,
               !.analysis_notes = [kind |-> kind, ratio |-> ratio]]

\* topic_full_text.split(':')[0].strip() if ':' in it, else its first 100
\* characters and "..."
ChapterOf(topic) ==
    IF \E i \in 1..Len(topic) : topic[i] = ":"
    THEN Strip(SubSeq(topic, 1,
                      SkipWhile(topic, 1, {topic[i] : i \in 1..Len(topic)} \ {":"}) - 1))
    ELSE Prefix(topic, 100) \o <<".", ".", ".">>

\* lines 249-258; scores are in thousandths
NameStep(st, subj, ratio) ==
    IF ratio > 60
    THEN [bm |-> Attributed(st.bm, subj, "name", ratio), cur |-> ratio * 10]
    ELSE st

\* the heuristic score of line 273, in thousandths
TopicScoreOf(ratio, common) == (ratio * 10 + Min(common * 200, 1000)) \div 2

\* lines 262-283 for one topic
TopicStep(st, subj, topic, ratio, q) ==
    LET common == CommonKeywords(Lower(q), Lower(topic))
        score == TopicScoreOf(ratio, common)
    IN IF (ratio > 75 \/ (common > 2 /\ ratio > 50)) /\ score > st.cur
       THEN [bm |-> [Attributed(st.bm, subj, "topic", ratio) EXCEPT
                        !.matched_chapter_or_section = ChapterOf(topic)],
             cur |-> score]
       ELSE st

\* lines 287-300 for one course outcome
OutcomeStep(st, subj, co, ratio) ==
    IF ratio > 80 /\ ratio * 10 > st.cur
    THEN [bm |-> [Attributed(st.bm, subj, "outcome", ratio) EXCEPT
                     !.matched_course_outcome = co],
          cur |-> ratio * 10]
    ELSE st

RECURSIVE TopicsFrom(_, _, _, _, _)
TopicsFrom(st, subj, rs, k, q) ==
    IF k > Len(subj.topics) THEN st
    ELSE TopicsFrom(TopicStep(st, subj, subj.topics[k], rs[k], q), subj, rs, k + 1, q)

RECURSIVE OutcomesFrom(_, _, _, _)
OutcomesFrom(st, subj, rs, k) ==
    IF k > Len(subj.outcomes) THEN st
    ELSE OutcomesFrom(OutcomeStep(st, subj, subj.outcomes[k], rs[k]), subj, rs, k + 1)

\* lines 303-304
KeepBestScore(st) ==
    IF st.cur > st.bm.confidence_score
    THEN [st.bm EXCEPT !.confidence_score = st.cur]
    ELSE st.bm

\* the body of the loop over parsed_syllabus.items() for one subject; r holds
\* what fuzz.partial_ratio returns for the name, the topics and the outcomes
SubjectStep(bm, subj, r, q) ==
    KeepBestScore(
        OutcomesFrom(
            TopicsFrom(NameStep([bm |-> bm, cur |-> 0], subj, r.name),
                       subj, r.topics, 1, q),
            subj, r.outcomes, 1))

RECURSIVE SubjectsFrom(_, _, _, _, _)
SubjectsFrom(bm, catalog, rs, k, q) ==
    IF k > Len(catalog) THEN bm
    ELSE SubjectsFrom(SubjectStep(bm, catalog[k], rs[k], q), catalog, rs, k + 1, q)

\* the best_match appended for questions[i]
BestMatch(i, q, catalog, rs) ==
    SubjectsFrom(InitialMatch(i, q), catalog, rs, 1, q)

(* Question papers and catalogs *)

\* results of fuzz.partial_ratio on the two sides of each threshold
Ratios == {55, 90}

RatiosFor(subj) ==
    [name : Ratios,
     topics : SeqsOf(Ratios, Len(subj.topics)),
     outcomes : SeqsOf(Ratios, Len(subj.outcomes))]

RatiosOf(catalog) ==
    {rs \in SeqsOf(UNION {RatiosFor(catalog[k]) : k \in 1..Len(catalog)}, Len(catalog)) :
        \A k \in 1..Len(catalog) : rs[k] \in RatiosFor(catalog[k])}

\* a code of parsed_syllabus and its details
Detail(code, name, semester, year, topics, outcomes) ==
    [code |-> code, name |-> name, semester |-> semester, year |-> year,
     topics |-> topics, outcomes |-> outcomes]

D_Osi == Detail(S_IP, S_Osi, S_1st, S_2nd, <<<<"O","s","i",":"," ","d","e","f","i","n","e"," ","o","s","i"," ","m","o","d","e","l">>>>, <<>>)
D_Tcp == Detail(S_tcp, S_Net, S_1st, S_2nd, <<>>, <<<<"e","x","p","l","a","i","n"," ","t","c","p">>>>)

AppCatalogs == {<<>>, <<D_Osi>>, <<D_Osi, D_Tcp>>, <<D_Tcp, D_Osi>>}

Q_example == <<"1","."," ","D","e","f","i","n","e"," ","O","S","I"," ","m","o","d","e","l","."," ","2","."," ","E","x","p","l","a","i","n"," ","T","C","P"," ","c","o","n","g","e","s","t","i","o","n"," ","c","o","n","t","r","o","l",".">>
Q_first == <<"1","."," ","D","e","f","i","n","e"," ","o","s","i"," ","m","o","d","e","l">>
Q_second == <<"2",")"," ","e","x","p","l","a","i","n"," ","t","c","p">>
Q_spaced == <<" ","b"," ","."," ","m","c","q">>
Q_plain == <<"w","h","a","t"," ","i","s"," ","t","h","e"," ","o","s","i"," ","m","o","d","e","l"," ","o","f"," ","t","c","p">>

PaperLines == {Q_example, Q_first, Q_second, Q_spaced, Q_plain, S_empty}

Papers ==
    {JoinWith(<<"\n">>, ls) :
        ls \in UNION {SeqsOf(PaperLines, n) : n \in 0..MaxPaperLines}}

InitApp ==
    /\ parsed_syllabus \in AppCatalogs
    /\ questions_text \in Papers
    /\ questions = <<>>
    /\ results = <<>>
    /\ pc = "split"
    /\ NoMatching
    /\ NoDocument

\* lines 210-218
SplitPaper ==
    /\ pc = "split"
    /\ questions' = SplitQuestions(questions_text)
    /\ pc' = "match"
    /\ UNCHANGED <<parsed_syllabus, questions_text, results, matchVars, docVars>>

\* one round of the loop of line 223
MatchQuestion ==
    /\ pc = "match"
    /\ Len(results) < Len(questions)
    /\ \E rs \in RatiosOf(parsed_syllabus) :
          results' = Append(results,
                            BestMatch(Len(results), questions[Len(results) + 1],
                                      parsed_syllabus, rs))
    /\ UNCHANGED <<parsed_syllabus, questions_text, questions, pc, matchVars, docVars>>

\* line 308
ReturnResults ==
    /\ pc = "match"
    /\ Len(results) = Len(questions)
    /\ pc' = "analysed"
    /\ UNCHANGED <<appVars, matchVars, docVars>>

NextApp == SplitPaper \/ MatchQuestion \/ ReturnResults

SpecApp == InitApp /\ [][NextApp]_vars

----------------------------------------------------------------------------
(* app.py: parse_syllabus *)

IsUpper(c) == \E i \in 1..26 : UpperLetters[i] = c

\* the first position from i on whose character is in the class
SkipUntil(s, i, class) ==
    IF i > Len(s) THEN i
    ELSE CHOOSE j \in i..(Len(s) + 1) :
            /\ j > Len(s) \/ s[j] \in class
            /\ \A k \in i..(j - 1) : s[k] \notin class

\* where the maximal runs without whitespace start
TokenStarts(s) ==
    {i \in 1..Len(s) : s[i] \notin Whitespace /\ (i = 1 \/ s[i - 1] \in Whitespace)}

\* the last position of the token that starts at i
TokenEnd(s, i) == SkipUntil(s, i, Whitespace) - 1

\* the k-th token of s
Token(s, k) ==
    LET i == Nth(TokenStarts(s), k) IN SubSeq(s, i, TokenEnd(s, i))

\* IT/[A-Z]{2}/[A-Z]/[A-Z]/[0-9]{3}[A-Z]? at position i: the position after
\* it with the optional letter taken, or 0
SubjectCodeEnd(s, i) ==
    IF /\ i + 12 <= Len(s)
       /\ SubSeq(s, i, i + 2) = <<"I", "T", "/">>
       /\ IsUpper(s[i + 3]) /\ IsUpper(s[i + 4]) /\ s[i + 5] = "/"
       /\ IsUpper(s[i + 6]) /\ s[i + 7] = "/"
       /\ IsUpper(s[i + 8]) /\ s[i + 9] = "/"
       /\ s[i + 10] \in Digits /\ s[i + 11] \in Digits /\ s[i + 12] \in Digits
    THEN IF i + 13 <= Len(s) /\ IsUpper(s[i + 13]) THEN i + 14 ELSE i + 13
    ELSE 0

\* the whole token is a subject code
IsSubjectCode(tok) == SubjectCodeEnd(tok, 1) = Len(tok) + 1

AllIn(tok, class) == tok # <<>> /\ \A i \in 1..Len(tok) : tok[i] \in class

Letters == {UpperLetters[i] : i \in 1..26} \cup {LowerLetters[i] : i \in 1..26}

\* \d+\.?\d*
IsCredit(tok) ==
    LET a == SkipWhile(tok, 1, Digits)
        b == SkipWhile(tok, IF a <= Len(tok) /\ tok[a] = "." THEN a + 1 ELSE a, Digits)
    IN a > 1 /\ b = Len(tok) + 1

\* table_row_pattern.match(line) on a stripped line: the pattern fixes the
\* first token and the last seven, and the lazy name group takes the tokens
\* between them, of which there is at least one
TableRow(line) ==
    LET n == Cardinality(TokenStarts(line))
    IN IF /\ n >= 9
          /\ IsSubjectCode(Token(line, 1))
          /\ \A k \in 2..(n - 7) : AllIn(Token(line, k), Letters \cup {"&", "+", "-"})
          /\ Len(Token(line, n - 6)) = 2 /\ AllIn(Token(line, n - 6), Letters \ {LowerLetters[i] : i \in 1..26})
          /\ AllIn(Token(line, n - 5), Letters)
          /\ \A k \in (n - 4)..(n - 2) : Len(Token(line, k)) = 1 /\ AllIn(Token(line, k), Digits)
          /\ IsCredit(Token(line, n - 1))
          /\ AllIn(Token(line, n), Digits)
       THEN [matched |-> TRUE, code |-> Token(line, 1),
             name |-> SubSeq(line, Nth(TokenStarts(line), 2),
                             TokenEnd(line, Nth(TokenStarts(line), n - 7)))]
       ELSE [matched |-> FALSE, code |-> <<>>, name |-> <<>>]

\* \d\s*(?:nd|rd|th)\s*Year\s*\d\s*(?:st|nd|rd|th)\s*Semester at position i,
\* ignoring case: the position after it, or 0
SemesterYearEnd(s, i) ==
    LET a == SkipWhile(s, i + 1, Whitespace)
        b == SkipWhile(s, a + 2, Whitespace)
        c == SkipWhile(s, b + 4, Whitespace)
        d == SkipWhile(s, c + 1, Whitespace)
        e == SkipWhile(s, d + 2, Whitespace)
    IN IF /\ i <= Len(s) /\ s[i] \in Digits
          /\ \E x \in OrdinalSuffixes \ {<<"s", "t">>} : WordAt(s, a, x)
          /\ WordAt(s, b, W_year)
          /\ c <= Len(s) /\ s[c] \in Digits
          /\ \E x \in OrdinalSuffixes : WordAt(s, d, x)
          /\ WordAt(s, e, W_semester)
       THEN e + Len(W_semester)
       ELSE 0

UnknownSemesterYear == <<"U","n","k","n","o","w","n"," ","S","e","m","e","s","t","e","r","/","Y","e","a","r">>
Unknown == <<"U","n","k","n","o","w","n">>

\* semester_year_pattern.search(line): group 1 of the leftmost match
SemesterYear(line) ==
    IF \E i \in 1..Len(line) : SemesterYearEnd(line, i) # 0
    THEN LET i == CHOOSE k \in 1..Len(line) :
                      /\ SemesterYearEnd(line, k) # 0
                      /\ \A j \in 1..(k - 1) : SemesterYearEnd(line, j) = 0
         IN [matched |-> TRUE, text |-> SubSeq(line, i, SemesterYearEnd(line, i) - 1)]
    ELSE [matched |-> FALSE, text |-> <<>>]

\* current_semester_year.split(' ')[0], or "Unknown"
YearOf(current) ==
    IF current = UnknownSemesterYear THEN Unknown
    ELSE SubSeq(current, 1, SkipUntil(current, 1, {" "}) - 1)

\* parsed_syllabus[code] = {...}: a new code goes to the end, a known code
\* keeps its place and gets the new details
Assign(catalog, detail) ==
    IF \E k \in 1..Len(catalog) : catalog[k].code = detail.code
    THEN [k \in 1..Len(catalog) |->
             IF catalog[k].code = detail.code THEN detail ELSE catalog[k]]
    ELSE Append(catalog, detail)

RECURSIVE FirstPass(_, _, _, _)
\* the loop of lines 95-131 from line k on; the details keep the keys that
\* the matching reads
FirstPass(lines, k, current, catalog) ==
    IF k > Len(lines) THEN catalog
    ELSE LET line == Strip(lines[k])
             sm == SemesterYear(line)
             tm == TableRow(line)
         IN IF line = <<>> THEN FirstPass(lines, k + 1, current, catalog)
            ELSE IF sm.matched
            THEN FirstPass(lines, k + 1, Strip(sm.text), catalog)
            ELSE IF tm.matched
            THEN FirstPass(lines, k + 1, current,
                           Assign(catalog,
                                  Detail(tm.code, Strip(tm.name), current,
                                         YearOf(current), <<>>, <<>>)))
            ELSE FirstPass(lines, k + 1, current, catalog)

\* ^\((IT/[A-Z]{2}/[A-Z]/[A-Z]/[0-9]{3}[A-Z]?)\) at position p under
\* re.MULTILINE: the position of the closing parenthesis, or 0
HeaderClose(s, p) ==
    IF /\ p <= Len(s) /\ s[p] = "("
       /\ p = 1 \/ s[p - 1] = "\n"
       /\ SubjectCodeEnd(s, p + 1) # 0
       /\ SubjectCodeEnd(s, p + 1) <= Len(s)
       /\ s[SubjectCodeEnd(s, p + 1)] = ")"
    THEN SubjectCodeEnd(s, p + 1)
    ELSE 0

HeaderStarts(s) == {p \in 1..Len(s) : HeaderClose(s, p) # 0}

\* the pairs (code, content) that the loop of line 140 takes out of the
\* re.split of line 136, both stripped
SyllabusBlocks(s) ==
    LET hs == HeaderStarts(s)
    IN [k \in 1..Cardinality(hs) |->
           LET p == Nth(hs, k)
               c == HeaderClose(s, p)
               from == SkipWhile(s, c + 1, Whitespace)
               to == IF k < Cardinality(hs) THEN Nth(hs, k + 1) - 1 ELSE Len(s)
           IN [code |-> Strip(SubSeq(s, p + 1, c - 1)),
               content |-> Strip(SubSeq(s, from, to))]]

\* the alternatives of topic_start_patterns that a line of the texts below
\* can start with, in lower case
TopicStartPhrases == {<<"i","n","t","r","o","d","u","c","t","i","o","n">>, <<"o","v","e","r","v","i","e","w">>}

\* re.match(pattern, line, re.IGNORECASE): an alternative and then a colon
IsTopicStart(line) ==
    \E ph \in TopicStartPhrases :
        /\ WordAt(line, 1, ph)
        /\ Len(line) > Len(ph)
        /\ line[Len(ph) + 1] = ":"

RECURSIVE TopicLinesFrom(_, _, _, _)
\* the loop of lines 156-183 over the stripped non-blank lines: a topic
\* start closes the buffer and opens a new one, any other line joins the
\* buffer; the branch of line 179 needs an empty buffer after a topic was
\* closed, which never happens
TopicLinesFrom(lines, k, buffer, topic_lines) ==
    IF k > Len(lines)
    THEN IF buffer # <<>>
         THEN Append(topic_lines, Strip(JoinWith(<<" ">>, buffer)))
         ELSE topic_lines
    ELSE IF IsTopicStart(lines[k])
    THEN TopicLinesFrom(lines, k + 1, <<lines[k]>>,
                        IF buffer # <<>>
                        THEN Append(topic_lines, Strip(JoinWith(<<" ">>, buffer)))
                        ELSE topic_lines)
    ELSE TopicLinesFrom(lines, k + 1, Append(buffer, lines[k]), topic_lines)

\* co_pattern.match(line): CO\d+\s*[:\.]?\s*(.+) ignoring case; the greedy
\* parts give a character back to (.+) but the letters and one digit stay
IsOutcomeLine(line) ==
    /\ WordAt(line, 1, <<"c", "o">>)
    /\ Len(line) >= 4
    /\ line[3] \in Digits

ContentLines(content) ==
    StripAll(SelectSeq(PiecesBetween(content, {i \in 1..Len(content) : content[i] = "\n"}, 1),
                       NonBlank))

RECURSIVE SecondPass(_, _, _)
\* the loop of lines 140-195 from block k on
SecondPass(blocks, k, catalog) ==
    IF k > Len(blocks) THEN catalog
    ELSE LET b == blocks[k]
             lines == ContentLines(b.content)
         IN SecondPass(blocks, k + 1,
               [j \in 1..Len(catalog) |->
                   IF catalog[j].code = b.code
                   THEN [catalog[j] EXCEPT
                            !.topics = TopicLinesFrom(lines, 1, <<>>, <<>>),
                            !.outcomes = SelectSeq(lines, IsOutcomeLine)]
                   ELSE catalog[j]])

\* parse_syllabus(syllabus_text): the dict as the sequence of its items
parse_syllabus(syllabus_text) ==
    SecondPass(SyllabusBlocks(syllabus_text), 1,
               FirstPass(PiecesBetween(syllabus_text,
                                       {i \in 1..Len(syllabus_text) : syllabus_text[i] = "\n"}, 1),
                         1, UnknownSemesterYear, <<>>))

----------------------------------------------------------------------------
(* app.py: the handler of the button "Analyze Questions (JSON Output)" *)

L_semyear == <<"2","n","d"," ","Y","e","a","r"," ","1","s","t"," ","S","e","m","e","s","t","e","r">>
L_row == <<"I","T","/","P","C","/","B","/","T","/","2","1","1"," ","D","a","t","a"," ","S","t","r","u","c","t","u","r","e","s"," ","P","C"," ","B","a","s","i","c"," ","3"," ","0"," ","0"," ","3"," ","1","0","0">>
L_header == <<"(","I","T","/","P","C","/","B","/","T","/","2","1","1",")"," ","D","a","t","a"," ","S","t","r","u","c","t","u","r","e","s">>
L_topic == <<"I","n","t","r","o","d","u","c","t","i","o","n",":"," ","a","r","r","a","y","s",","," ","l","i","s","t","s">>
L_co == <<"C","O","1",":"," ","u","n","d","e","r","s","t","a","n","d"," ","s","t","r","u","c","t","u","r","e","s">>

SyllabusLines == {L_semyear, L_row, L_header, L_topic, L_co}

\* what process_uploaded_file gave for the syllabus: nothing, the text of
\* at most MaxSyllabusLines lines, or the value of a JSON file
SyllabusUploads ==
    {TextInput(JoinWith(<<"\n">>, ls)) :
        ls \in UNION {SeqsOf(SyllabusLines, n) : n \in 0..MaxSyllabusLines}}
    \cup {[kind |-> "null", items |-> <<>>],
          [kind |-> "list", items |-> <<EmptyItem>>]}

QuestionUploads == {None, Q_first, JoinWith(<<"\n">>, <<Q_first, Q_second>>)}

\* the truth value of syllabus_text_raw and of questions_text_raw
UploadGiven(o) == o.kind # "null" /\ o.items # <<>>
QuestionsGiven(t) == t # None /\ t # <<>>

InitRun ==
    /\ obj \in SyllabusUploads
    /\ questions_text \in QuestionUploads
    /\ vcalls = <<>>
    /\ parsed_syllabus = <<>>
    /\ questions = <<>>
    /\ results = <<>>
    /\ pc = "button"
    /\ NoMatching

\* line 397, both uploads there
PressAnalyze ==
    /\ pc = "button"
    /\ UploadGiven(obj) /\ QuestionsGiven(questions_text)
    /\ pc' = "parsing"
    /\ UNCHANGED <<appVars, matchVars, docVars>>

\* lines 422-423
WarnMissingUpload ==
    /\ pc = "button"
    /\ ~(UploadGiven(obj) /\ QuestionsGiven(questions_text))
    /\ pc' = "warned"
    /\ UNCHANGED <<appVars, matchVars, docVars>>

\* line 400 on an uploaded text; line 403 follows whatever the catalog is
ParseSyllabus ==
    /\ pc = "parsing"
    /\ obj.kind = "text"
    /\ parsed_syllabus' = parse_syllabus(obj.items)
    /\ pc' = "split"
    /\ UNCHANGED <<questions_text, questions, results, matchVars, docVars>>

\* line 400 on the value of a JSON file: syllabus_text.split raises
ParseSyllabusRaises ==
    /\ pc = "parsing"
    /\ obj.kind # "text"
    /\ pc' = "raised"
    /\ UNCHANGED <<appVars, matchVars, docVars>>

\* lines 405-420
ShowResults ==
    /\ pc = "analysed"
    /\ pc' = "shown"
    /\ UNCHANGED <<appVars, matchVars, docVars>>

NextRun ==
    \/ PressAnalyze
    \/ WarnMissingUpload
    \/ ParseSyllabus
    \/ ParseSyllabusRaises
    \/ SplitPaper
    \/ MatchQuestion
    \/ ReturnResults
    \/ ShowResults

SpecRun == InitRun /\ [][NextRun]_vars

----------------------------------------------------------------------------
(* Properties of analyze_question *)

AttributionKeys == {"probable_topic", "course_outcome", "subject_name",
                    "subject_code", "year", "semester"}
MatcherKeys == AttributionKeys \cup {"question_text", "question_type",
                                     "confidence_score"}

\* C1: fallback safety.  When the AI attempt failed, analyze_question returns
\* exactly one result, its ai_raw_output is None, and every field the
\* heuristic matcher returns for this question and catalog is in the result.
C1_FallbackSafety ==
    (pc = "done" /\ aiFailure # NoFailure) =>
        /\ returned = 1
        /\ ~escaped
        /\ kmCalls = 1
        /\ out.ai_raw_output = None
        /\ LET r == _keyword_matcher(question, syllabus)
           IN ~r.raised => \A k \in MatcherKeys : out[k] = r.best[k]

C1_Witness ==
    /\ pc = "done"
    /\ aiFailure = "no get"
    /\ ~kb.raised
    /\ out.subject_name = S_OsiIp
    /\ out.confidence_score = Num(95)

\* C2: after a failed AI attempt the returned error_message is the recorded
\* AI failure reason, whatever the fallback did.
C2_AIFailureRecorded ==
    (pc = "done" /\ aiFailure # NoFailure) =>
        out.error_message = GeminiError(aiFailure)

\* C3: analyze_question never raises.  No exception leaves it, it returns
\* one record, and when no strategy produced a result the record has
\* "Not Found" in every attribution field and confidence_score 0.0.
C3_NeverRaises ==
    /\ ~escaped
    /\ pc # "raised"
    /\ pc \in {"start", "generate_text", "generate", "parse", "fallback", "done"}
    /\ pc = "done" =>
        /\ returned = 1
        /\ (kb.called /\ kb.raised) =>
              /\ \A k \in AttributionKeys : out[k] = NotFound
              /\ out.confidence_score = Num(0)
              /\ out.question_text = question

C3_Witness ==
    /\ pc = "done"
    /\ aiFailure = "transport"
    /\ kb.called /\ kb.raised
    /\ out.subject_name = NotFound

\* C4 as stated: at most one request is sent to the AI service for one
\* question.
C4_AtMostOneRequest == requests <= 1

\* C4 amended: at most two requests are sent, the second one only after
\* generate_text raised (the alternate API); once the AI attempt has failed
\* no request is sent any more and the heuristic matcher runs exactly once.
C4_NoRetryAmended ==
    /\ [](/\ requests <= 2
          /\ kmCalls <= 1
          /\ (pc = "done" /\ aiFailure # NoFailure) => kmCalls = 1)
    /\ [][/\ requests' = 2 => (requests = 2 \/ pc = "generate")
          /\ aiFailure # NoFailure => requests' = requests
          /\ kmCalls' > kmCalls => (pc = "fallback" /\ pc' = "done")]_vars

C4_Witness ==
    /\ pc = "done"
    /\ requests = 2
    /\ aiFailure = "transport"
    /\ kmCalls = 1

\* C6: the confidence_score of every returned result is a number in
\* [0.0, 1.0], whatever the AI response supplied.
C6_ConfidenceInUnitInterval ==
    pc = "done" =>
        /\ out.confidence_score.num
        /\ 0 <= out.confidence_score.val
        /\ out.confidence_score.val <= 100

----------------------------------------------------------------------------
(* Properties of _keyword_matcher *)

Returned == pc \in {"matched", "done"} /\ kb.called /\ ~kb.raised

\* the scores of the records of the catalog, by position
Scores ==
    LET q == Lower(question)
    IN [i \in 1..Len(syllabus) |-> SubjectScore(syllabus[i], q)]

\* the largest of a sequence of scores, 0 for the empty sequence
Largest(scores) ==
    IF scores = <<>> THEN 0
    ELSE CHOOSE m \in {scores[i] : i \in 1..Len(scores)} :
            \A i \in 1..Len(scores) : scores[i] <= m

\* the largest score of the catalog
WinningScore == Largest(Scores)

\* C5: the heuristic confidence is min(0.95, 0.10 + 0.05 * s) for the
\* winning score s, and lies in [0.0, 0.95] (scaled by 100).
C5_HeuristicConfidence ==
    Returned =>
        LET c == kb.best.confidence_score
        IN /\ c.num
           /\ c.val = Min(95, 10 + 5 * WinningScore)
           /\ 0 <= c.val
           /\ c.val <= 95

C5_Witness ==
    /\ Returned
    /\ WinningScore >= 18
    /\ kb.best.confidence_score = Num(95)

\* C7: when every subject scores zero (also for the empty catalog) the
\* heuristic result has "Not Found" in every attribution field and
\* confidence_score 0.0.
C7_UnresolvedAttribution ==
    (Returned /\ WinningScore = 0) =>
        /\ \A k \in AttributionKeys : kb.best[k] = NotFound
        /\ kb.best.confidence_score = Num(0)

\* C8: subject_name, subject_code, year and semester of a heuristic result
\* are never the empty string.
C8_NoEmptyAttribution ==
    Returned =>
        \A k \in {"subject_name", "subject_code", "year", "semester"} :
            kb.best[k] # <<>>

\* a value of the result that comes from a field of a record: the field
\* itself when the record has it, a placeholder otherwise
FromField(v, x) ==
    IF x # <<>> /\ x # Absent THEN v = x ELSE v \in {NotFound, <<>>}

\* the attribution of the result is that of the record at position i
FromRecord(b, i) ==
    LET rec == syllabus[i]
    IN /\ FromField(b.subject_name, rec.subject)
       /\ FromField(b.subject_code, rec.subject_code)
       /\ FromField(b.year, rec.year)
       /\ FromField(b.semester, rec.semester)
       /\ b.course_outcome = IF rec.course_outcomes = <<>> THEN NotFound
                             ELSE Head(rec.course_outcomes)

\* C9: when some subject scores above zero, subject_name, subject_code,
\* year, semester and course_outcome all come from one record, whose score
\* is the maximum over the catalog, and course_outcome is its first outcome.
C9_WinnerSuppliesAttribution ==
    Returned =>
        LET scores == Scores
            win == Largest(scores)
        IN win > 0 =>
              \E i \in 1..Len(syllabus) :
                  /\ scores[i] = win
                  /\ FromRecord(kb.best, i)

C9_Witness ==
    /\ Returned
    /\ Len(syllabus) = 2
    /\ 0 < Scores[1]
    /\ Scores[1] < Scores[2]
    /\ syllabus[2].course_outcomes # <<>>
    /\ kb.best.course_outcome = S_osi_tcp
    /\ ~FromRecord(kb.best, 1)

\* C10: probable_topic names the topic of the winning subject with the
\* highest topic-level score for the question.
C10_BestTopic ==
    (Returned /\ WinningScore > 0) =>
        \E i \in 1..Len(syllabus) :
            /\ Scores[i] = WinningScore
            /\ FromRecord(kb.best, i)
            /\ LET ts == syllabus[i].topics
                   q == Lower(question)
               IN IF ts = <<>> THEN kb.best.probable_topic = NotFound
                  ELSE \E j \in 1..Len(ts) :
                          /\ \A k \in 1..Len(ts) :
                                TopicScore(ts[k], q) <= TopicScore(ts[j], q)
                          /\ IsSubstr(ts[j], kb.best.probable_topic)

----------------------------------------------------------------------------
(* Properties of the question_type rules *)

MatchesAny(kws, qlow) == \E kw \in kws : SearchWord(kw, qlow)

\* C11: question_type precedence in the heuristic strategy.  MCQ wins over
\* Broad Answer, Broad Answer over Short Answer, no keyword gives Other, and
\* the type is always one of the four values.
C11_TypePrecedence ==
    Returned =>
        LET q == Lower(question)
            t == kb.best.question_type
        IN /\ t \in {T_MCQ, T_ShortAnswer, T_BroadAnswer, T_Other}
           /\ MatchesAny(McqWords, q) => t = T_MCQ
           /\ (MatchesAny(BroadAnswerWords, q) /\ ~MatchesAny(McqWords, q))
                 => t = T_BroadAnswer
           /\ (/\ MatchesAny(ShortAnswerWords, q)
               /\ ~MatchesAny(BroadAnswerWords, q)
               /\ ~MatchesAny(McqWords, q)) => t = T_ShortAnswer
           /\ (/\ ~MatchesAny(ShortAnswerWords, q)
               /\ ~MatchesAny(BroadAnswerWords, q)
               /\ ~MatchesAny(McqWords, q)) => t = T_Other

C11_Witness ==
    /\ Returned
    /\ MatchesAny(ShortAnswerWords, Lower(question))
    /\ MatchesAny(BroadAnswerWords, Lower(question))
    /\ MatchesAny(McqWords, Lower(question))
    /\ kb.best.question_type = T_MCQ

\* C12: an AI-assisted result whose response supplied no question_type has
\* the question_type the keyword rules give for the question.
C12_TypeWhenAIOmitsIt ==
    (/\ pc = "done"
     /\ aiFailure = NoFailure
     /\ out.ai_raw_output # None
     /\ LET p == ParseResponse(resp).parsed
        IN p.kind = "object" /\ "question_type" \notin DOMAIN p.fields)
    => /\ out.question_type \in {T_MCQ, T_ShortAnswer, T_BroadAnswer, T_Other}
       /\ out.question_type = QuestionType(Lower(question))

----------------------------------------------------------------------------
(* Properties of validate_syllabus_json *)

Validated == Len(vcalls) > 0

\* C13: validate_syllabus_json raises ValueError, and returns no catalog,
\* exactly when the top-level input is not a list; for a list input it
\* never raises ValueError
C13_InvalidFormat ==
    \A i \in 1..Len(vcalls) :
        /\ (vcalls[i].error = "ValueError") <=> (obj.kind # "list")
        /\ vcalls[i].error = "ValueError" => vcalls[i].catalog = <<>>

C13_Witness ==
    /\ Validated
    /\ obj.kind = "mapping"
    /\ vcalls[1].error = "ValueError"

\* C14: every record of a catalog returned by validate_syllabus_json has a
\* non-empty subject name; an item whose subject, subject_name and title are
\* all missing or empty is dropped
C14_NoEmptySubject ==
    \A i \in 1..Len(vcalls) :
        \A k \in 1..Len(vcalls[i].catalog) :
            vcalls[i].catalog[k].subject # <<>>

NoDuplicates(xs) == \A i, j \in 1..Len(xs) : xs[i] = xs[j] => i = j
NoBlanks(xs) == \A i \in 1..Len(xs) : NonBlank(xs[i])

\* C15: in every record a normalizer produces, topics and course_outcomes
\* hold no two equal entries and no blank entry, also when the structured
\* input gives the topics as a list
C15_CleanLists ==
    \A i \in 1..Len(vcalls) :
        \A k \in 1..Len(vcalls[i].catalog) :
            LET r == vcalls[i].catalog[k]
            IN /\ NoDuplicates(r.topics) /\ NoBlanks(r.topics)
               /\ NoDuplicates(r.course_outcomes) /\ NoBlanks(r.course_outcomes)

----------------------------------------------------------------------------
(* Properties of parse_syllabus_text *)

Parsed == obj.kind = "text" /\ Len(vcalls) = 1

ContainsIn(xs, w) == \E i \in 1..Len(xs) : IsSubstr(w, xs[i])

SyllabusExample == JoinWith(<<"\n">>, <<L_heading, L_intro, L_outcomes>>)

\* C17: the three-line text "(IT/PC/B/T/211) Data Structures" /
\* "Introduction: arrays, lists." / "Course Outcomes: CO1 understand
\* structures" parses to exactly one record with subject_code
\* "IT/PC/B/T/211", a topic containing "Introduction" and a course outcome
\* containing "CO1"
C17_OneRecordExample ==
    (Parsed /\ obj.items = SyllabusExample) =>
        /\ vcalls[1].error = "none"
        /\ Len(vcalls[1].catalog) = 1
        /\ vcalls[1].catalog[1].subject_code = <<"I","T","/","P","C","/","B","/","T","/","2","1","1">>
        /\ ContainsIn(vcalls[1].catalog[1].topics, <<"I","n","t","r","o","d","u","c","t","i","o","n">>)
        /\ ContainsIn(vcalls[1].catalog[1].course_outcomes, <<"C","O","1">>)

\* the text has no heading line and no non-blank paragraph
NothingToParse(t) ==
    /\ \A i \in 1..Len(SplitLines(t)) : ~HeadingMatch(SplitLines(t)[i]).matched
    /\ \A i \in 1..Len(t) : t[i] \in Whitespace

\* C20: parse_syllabus_text on the empty string, or on a text with no
\* heading line and no non-blank paragraph, returns an empty catalog and
\* raises nothing
C20_EmptyTextEmptyCatalog ==
    (Parsed /\ NothingToParse(obj.items)) =>
        /\ vcalls[1].error = "none"
        /\ vcalls[1].catalog = <<>>

C20_Witness ==
    /\ Parsed
    /\ obj.items = <<>>
    /\ vcalls[1] = [error |-> "none", catalog |-> <<>>]

----------------------------------------------------------------------------
(* Properties of analyze_questions_against_syllabus *)

PaperSplit == pc \in {"match", "analysed"}

\* C18: the question text "1. Define OSI model. 2. Explain TCP congestion
\* control." is cut into exactly two units, "1. Define OSI model." and
\* "2. Explain TCP congestion control.", in that order
C18_TwoUnitsExample ==
    (PaperSplit /\ questions_text = Q_example) =>
        questions = <<<<"1","."," ","D","e","f","i","n","e"," ","O","S","I"," ","m","o","d","e","l",".">>,
                      <<"2","."," ","E","x","p","l","a","i","n"," ","T","C","P"," ","c","o","n","g","e","s","t","i","o","n"," ","c","o","n","t","r","o","l",".">>>>

NotBlankChar(c) == c \notin Whitespace

\* s without its whitespace
Squeeze(s) == SelectSeq(s, NotBlankChar)

RECURSIVE InOrder(_, _, _)
\* the units occur in sq one after the other, from position `from` on
InOrder(us, sq, from) ==
    \/ us = <<>>
    \/ \E p \in from..(Len(sq) - Len(Head(us)) + 1) :
          /\ SubSeq(sq, p, p + Len(Head(us)) - 1) = Head(us)
          /\ InOrder(Tail(us), sq, p + Len(Head(us)))

\* C19: the question units stand in the order in which they appear in the
\* source text; the i-th result is the one of the i-th question (question_id
\* Q<i>, the same question text) whatever the matches are, and N questions
\* give exactly N results
C19_OrderPreserved ==
    PaperSplit =>
        /\ InOrder([k \in 1..Len(questions) |-> Squeeze(questions[k])],
                   Squeeze(questions_text), 1)
        /\ Len(results) <= Len(questions)
        /\ \A k \in 1..Len(results) :
              /\ results[k].question_id = <<"Q">> \o Decimal(k)
              /\ results[k].question_text = questions[k]
        /\ pc = "analysed" => Len(results) = Len(questions)

C19_Witness ==
    /\ pc = "analysed"
    /\ Len(questions) = 2
    /\ Len(results) = 2
    /\ questions[1] # questions[2]
    /\ results[1].matched_subject_code = NA
    /\ results[2].matched_subject_code # NA

----------------------------------------------------------------------------
(* Properties of the analysis run *)

MatchingStarted == pc \in {"split", "match", "analysed", "shown"}

\* C21: when parse_syllabus yields no subject record the run stops and the
\* matching step is never started; matching starts only with a non-empty
\* catalog
C21_EmptyCatalogTerminal ==
    (obj.kind # "none" /\ MatchingStarted) => parsed_syllabus # <<>>

----------------------------------------------------------------------------
(* Properties of _keyword_matcher: the score of one record *)

RECURSIVE FoundIn(_, _)
\* how many of the tokens toks occur in the question q, one by one
FoundIn(toks, q) ==
    IF toks = <<>> THEN 0
    ELSE (IF IsSubstr(Head(toks), q) THEN 1 ELSE 0) + FoundIn(Tail(toks), q)

\* a phrase that is present and occurs in q; an empty or missing phrase
\* does not occur
Occurs(phrase, q) ==
    /\ phrase # <<>>
    /\ phrase # Absent
    /\ IsSubstr(Lower(phrase), q)

RECURSIVE ReferenceTopics(_, _)
ReferenceTopics(ts, q) ==
    IF ts = <<>> THEN 0
    ELSE (IF Occurs(Head(ts), q) THEN 5
          ELSE FoundIn(Split(Lower(Head(ts))), q))
         + ReferenceTopics(Tail(ts), q)

RECURSIVE ReferenceOutcomes(_, _)
ReferenceOutcomes(cs, q) ==
    IF cs = <<>> THEN 0
    ELSE FoundIn(Split(Lower(Head(cs))), q) + ReferenceOutcomes(Tail(cs), q)

\* the reference sum of one record for the lowercased question q
ReferenceScore(subj, q) ==
    2 * FoundIn(Split(Lower(subj.subject)), q)
    + (IF Occurs(subj.subject_code, q) THEN 2 ELSE 0)
    + ReferenceTopics(subj.topics, q)
    + ReferenceOutcomes(subj.course_outcomes, q)

ReferenceScores ==
    [i \in 1..Len(syllabus) |-> ReferenceScore(syllabus[i], Lower(question))]

\* C22: the score of every record is the reference sum (2 per token of the
\* name found in the question, 2 for the code, per topic 5 for the whole
\* phrase and otherwise 1 per token found, 1 per token of each course
\* outcome found), and the confidence returned is the one of the largest
\* reference sum.
C22_ScoreIsReferenceSum ==
    Returned =>
        /\ \A i \in 1..Len(syllabus) : Scores[i] = ReferenceScores[i]
        /\ kb.best.confidence_score
               = Num(Min(95, 10 + 5 * Largest(ReferenceScores)))

\* one record with a hit of every kind: name token, code, whole topic,
\* token of a topic, token of an outcome (2 + 2 + 1 + 5 + 1 = 11)
C22_Witness ==
    /\ Returned
    /\ question = S_Tcpip
    /\ syllabus = <<Subject(S_OsiIp, S_IP, S_2nd, S_1st,
                            <<S_osi_tcp, S_tcp>>, <<S_osi_tcp, S_lan>>)>>
    /\ ReferenceScores = <<11>>
    /\ kb.best.confidence_score = Num(65)

----------------------------------------------------------------------------
(* Properties of analyze_question: the AI response *)

\* a JSON object was recovered from the text: the whole text decodes to an
\* object, or it does not decode and its {...} span decodes to an object
ObjectRecovered(t) ==
    \/ t.direct.kind = "object"
    \/ t.direct.kind = "undecodable" /\ t.braces.kind = "object"

AIAnswered == pc \in {"fallback", "done"} /\ resp.shape = "text"

\* C23: when no JSON object can be recovered from the response text (it
\* decodes to an array, a string, a number or null, or holds no decodable
\* object) the AI attempt fails with the unparseable-response error and
\* the result is the one of the heuristic fallback, with the reason
\* recorded.
C23_NonObjectIsUnparseable ==
    (AIAnswered /\ ~ObjectRecovered(resp.text)) =>
        /\ aiFailure = "unparseable"
        /\ pc = "done" =>
              /\ kb.called
              /\ out.ai_raw_output = None
              /\ out.error_message # None

----------------------------------------------------------------------------
(* Properties of parse_syllabus_text: year and semester *)

\* the "<N><ordinal> Year <N><ordinal> Semester" phrases of a text, as pairs
\* of the Year phrase and the Semester phrase
YearSemesterPhrases(t) ==
    {<<SubSeq(t, i, OrdinalEnd(t, i, W_year) - 1),
       SubSeq(t, j, OrdinalEnd(t, j, W_semester) - 1)>> :
        <<i, j>> \in {<<a, b>> \in (1..Len(t)) \X (1..Len(t)) :
                        /\ OrdinalEnd(t, a, W_year) # 0
                        /\ OrdinalEnd(t, a, W_year) < b
                        /\ b = SkipWhile(t, OrdinalEnd(t, a, W_year), Whitespace)
                        /\ OrdinalEnd(t, b, W_semester) # 0}}

\* C24: when the raw text contains a "<N><ordinal> Year <N><ordinal>
\* Semester" phrase, every record of the catalog returned by
\* parse_syllabus_text has the Year phrase as its year and the Semester
\* phrase as its semester.
C24_YearSemesterInherited ==
    (Parsed /\ YearSemesterPhrases(obj.items) # {}) =>
        /\ vcalls[1].error = "none"
        /\ \A k \in 1..Len(vcalls[1].catalog) :
              \E p \in YearSemesterPhrases(obj.items) :
                  /\ vcalls[1].catalog[k].year = p[1]
                  /\ vcalls[1].catalog[k].semester = p[2]

----------------------------------------------------------------------------
(* Properties of parse_syllabus_text: the blocks *)

\* the positions of the heading lines of a document
HeadingLines(lines) ==
    {i \in 1..Len(lines) : HeadingMatch(lines[i]).matched}

\* the k-th of the heading lines H, in document order
KthHeading(H, k) ==
    CHOOSE h \in H : Cardinality({x \in H : x < h}) = k - 1

\* the last line of the block of heading line h in a document of n lines
BlockEnd(H, h, n) ==
    IF \E x \in H : x > h
    THEN (CHOOSE x \in H : x > h /\ \A y \in H : y > h => x <= y) - 1
    ELSE n

\* C25: with at least one heading line the catalog has one record per
\* heading line, in document order; the raw_text of record k is built from
\* the lines from heading k up to the line before heading k+1 (to the last
\* line for the last heading); the blocks are contiguous, pairwise disjoint
\* and cover every line from the first heading on.
C25_BlocksCutAtHeadings ==
    Parsed =>
        LET lines == SplitLines(obj.items)
            H == HeadingLines(lines)
            catalog == vcalls[1].catalog
            n == Len(catalog)
            first == [k \in 1..n |-> KthHeading(H, k)]
            last == [k \in 1..n |-> BlockEnd(H, first[k], Len(lines))]
        IN H # {} =>
              /\ vcalls[1].error = "none"
              /\ n = Cardinality(H)
              /\ \A k \in 1..n :
                    /\ catalog[k].subject_code
                           = Strip(HeadingMatch(lines[first[k]]).code)
                    /\ catalog[k].raw_text
                           = Strip(JoinWith(<<"\n">>,
                                 [j \in 1..(last[k] - first[k] + 1) |->
                                     lines[first[k] + j - 1]]))
                    /\ k < n => last[k] + 1 = first[k + 1]
                    /\ \A m \in 1..n :
                          m # k => (first[k]..last[k]) \cap (first[m]..last[m]) = {}
              /\ UNION {first[k]..last[k] : k \in 1..n} = first[1]..Len(lines)

\* a block of two lines followed by a block of one line
C25_Witness ==
    /\ Parsed
    /\ obj.items = JoinWith(<<"\n">>, <<L_heading, L_bullet, L_year>>)
    /\ Len(vcalls[1].catalog) = 2
    /\ vcalls[1].catalog[1].raw_text = JoinWith(<<"\n">>, <<L_heading, L_bullet>>)
    /\ vcalls[1].catalog[2].raw_text = L_year

----------------------------------------------------------------------------
(* Properties of extract_topics_and_cos: the region of the course outcomes *)

\* the non-blank lines of a block, stripped; the first one is its heading
BlockLinesOf(rec) == StripAll(SelectSeq(SplitLines(rec.raw_text), NonBlank))

HasTrigger(line) == \E k \in OutcomePhrases : IsSubstr(k, Lower(line))

\* the positions after the heading of the lines with a trigger phrase
TriggerLines(ls) == {j \in 2..Len(ls) : HasTrigger(ls[j])}

\* the first of them
FirstTrigger(ls) ==
    CHOOSE t \in TriggerLines(ls) : \A j \in TriggerLines(ls) : t <= j

Entries(xs) == {xs[j] : j \in 1..Len(xs)}

----------------------------------------------------------------------------
(* Properties of analyze_questions_against_syllabus: the attribution *)

\* the score of the k-th subject alone for the question q: the
\* current_subject_score at the end of its round of the loop
ScoreOfSubject(k, q, rs) ==
    SubjectStep(InitialMatch(0, q), parsed_syllabus[k], rs[k], q).confidence_score

\* the result r names a subject whose score is the reported
\* confidence_score, the largest score of the catalog
AttributionOfBestScore(r, q, rs) ==
    LET n == Len(parsed_syllabus)
    IN /\ \A k \in 1..n : ScoreOfSubject(k, q, rs) <= r.confidence_score
       /\ r.matched_subject_code # NA =>
             \E k \in 1..n :
                 /\ parsed_syllabus[k].code = r.matched_subject_code
                 /\ parsed_syllabus[k].name = r.matched_subject_name
                 /\ ScoreOfSubject(k, q, rs) = r.confidence_score

\* C27: the result appended for a question names the subject whose score
\* is the reported confidence_score, the maximum over all subjects; a
\* subject scanned later with a lower score does not replace the
\* attribution of an earlier, higher-scoring subject.
C27_BestScoreAttribution ==
    [][(pc = "match" /\ Len(results') = Len(results) + 1) =>
          LET q == questions[Len(results') ]
              r == results'[Len(results')]
          IN \A rs \in RatiosOf(parsed_syllabus) :
                 r = BestMatch(Len(results), q, parsed_syllabus, rs)
                     => AttributionOfBestScore(r, q, rs)]_vars

----------------------------------------------------------------------------
(* Properties of _keyword_matcher: ties *)

\* the first position of the catalog whose score is the largest one
FirstWinner ==
    CHOOSE i \in 1..Len(syllabus) :
        /\ ReferenceScores[i] = Largest(ReferenceScores)
        /\ \A j \in 1..(i - 1) : ReferenceScores[j] < ReferenceScores[i]

\* C28: when several records reach the same largest positive score the
\* first of them in catalog order supplies the attribution; a later record
\* replaces the winner only with a strictly greater score.
C28_FirstOfTiedWins ==
    (Returned /\ Largest(ReferenceScores) > 0) =>
        /\ FromRecord(kb.best, FirstWinner)
        /\ kb.best.probable_topic
               = (IF syllabus[FirstWinner].topics = <<>> THEN NotFound
                  ELSE JoinWith(<<",", " ">>,
                                Prefix(syllabus[FirstWinner].topics, 2)))

\* two records with the same score, 2, that differ in name and code
C28_Witness ==
    /\ Returned
    /\ Len(syllabus) = 2
    /\ ReferenceScores = <<2, 2>>
    /\ syllabus[1].subject # syllabus[2].subject
    /\ kb.best.subject_name = syllabus[1].subject
    /\ ~FromRecord(kb.best, 2)

----------------------------------------------------------------------------
(* Properties of analyze_question: the fields of the result *)

\* C29: the question_text of the returned result is the question text
\* passed in, on the AI-assisted path, on the fallback path and when both
\* strategies failed.
C29_QuestionTextKept ==
    pc = "done" => out.question_text = question

\* the fallback was used for the question
FallbackUsed == kb.called

\* C30: a result that comes from the fallback holds nothing of the AI
\* response: ai_raw_output is None and every field but error_message is
\* the one of the heuristic matcher or, when the matcher raised, the
\* initial default; ai_raw_output is not None exactly when the result is
\* the AI-assisted one.
C30_NoLeakFromFailedAttempt ==
    pc = "done" =>
        /\ FallbackUsed =>
              /\ out.ai_raw_output = None
              /\ \A k \in MatcherKeys :
                    out[k] = IF kb.raised THEN InitialOut(question)[k]
                             ELSE kb.best[k]
        /\ out.ai_raw_output # None <=> ~FallbackUsed

\* the service answered null, the attempt failed on it and the matcher
\* supplied the result
C30_Witness ==
    /\ pc = "done"
    /\ resp.shape = "text"
    /\ resp.text.direct.kind = "null"
    /\ aiFailure = "not iterable"
    /\ FallbackUsed
    /\ ~kb.raised
    /\ kb.best.subject_name # NotFound
    /\ out.subject_name = kb.best.subject_name
    /\ out.ai_raw_output = None
============================================================================
